---- MODULE Spec2Model ----
(***************************************************************************)
(* Olm pairwise sessions (src/src/session.cpp) and Megolm inbound group    *)
(* sessions (src/src/inbound_group_session.c) as state machines.           *)
(*                                                                         *)
(* Cryptographic values are symbolic terms: a Curve25519 key pair is a     *)
(* private exponent with its public power in a small prime-order group, so *)
(* that DH(a, B) = DH(b, A); hashes, KDF outputs, ciphertexts and MACs are  *)
(* records naming the inputs they were computed from, so two of them are   *)
(* equal exactly when their inputs are.                                    *)
(***************************************************************************)
EXTENDS Integers, Sequences, FiniteSets, TLC

VARIABLES sess, pre, wire, last, hist, budget, grp, gpre, glast

pvars == <<sess, pre, wire, last, hist, budget>>
gvars == <<grp, gpre, glast>>
pvars_but_wire == <<sess, pre, last, hist, budget>>
vars == <<sess, pre, wire, last, hist, budget, grp, gpre, glast>>

(***************************************************************************)
(* Bounds of the exploration.                                              *)
(***************************************************************************)
MaxNew == 3
MaxEnc == 2
MaxFail == 1

(***************************************************************************)
(* Program constants.                                                      *)
(***************************************************************************)
KEY_LENGTH == 32
SHA256_OUTPUT_LENGTH == 32
PROTOCOL_VERSION == 3
OLM_PROTOCOL_VERSION == 3
MAC_LENGTH == 8
MAX_RECEIVER_CHAINS == 5
MAX_SKIPPED_MESSAGE_KEYS == 40

ERR == -1          \* std::size_t(-1), the error sentinel
NoKey == -1        \* a null field pointer of a decoded message

(***************************************************************************)
(* Curve25519, as exponentiation in the multiplicative group modulo a      *)
(* prime.                                                                  *)
(***************************************************************************)
Curve == [modulus |-> 1019, base |-> 2]

RECURSIVE ModExp(_, _, _)
ModExp(b, e, m) ==
    IF e = 0 THEN 1
    ELSE IF e % 2 = 0 THEN LET h == ModExp(b, e \div 2, m) IN (h * h) % m
    ELSE (b * ModExp(b, e - 1, m)) % m

\* curve25519_generate_key: the key pair of 32 random bytes
curve25519_generate_key(random) ==
    [public_key |-> ModExp(Curve.base, random, Curve.modulus),
     private_key |-> random]

\* curve25519_shared_secret(our_key, their_key, output)
curve25519_shared_secret(our_key, their_key) ==
    ModExp(their_key, our_key.private_key, Curve.modulus)

\* sha256 over a buffer, named by its input
sha256(input) == [sha256 |-> input]

(***************************************************************************)
(* Accounts: an identity key pair and the one-time keys; lookup_key finds  *)
(* a one-time key by its public key.                                       *)
(***************************************************************************)
Party == {"A", "B"}
Peer(s) == IF s = "A" THEN "B" ELSE "A"

Account ==
    [A |-> [identity |-> curve25519_generate_key(3),
            one_time_keys |-> <<curve25519_generate_key(5)>>],
     B |-> [identity |-> curve25519_generate_key(7),
            one_time_keys |-> <<curve25519_generate_key(11),
                                curve25519_generate_key(13)>>]]

\* Account::lookup_key: the sequence holding the matching one-time key, or <<>>
lookup_key(account, public_key) ==
    SelectSeq(account.one_time_keys, LAMBDA k : k.public_key = public_key)

PublishedKeys(s) ==
    {Account[s].one_time_keys[i].public_key :
        i \in 1..Len(Account[s].one_time_keys)}

\* the random bytes a caller hands in: <<base key seed, ratchet key seed>>
OutboundRandom == {<<17, 19>>}
\* the seeds of the ratchet keys drawn by encrypt, each used once
EncryptSeeds == <<31, 37, 41, 43, 47, 53, 59, 61>>
Plaintexts == {<<7>>, <<8, 9>>}

(***************************************************************************)
(* Message codec: encoded lengths of the tag-length-value wire formats.    *)
(***************************************************************************)
varint_length(value) == IF value < 128 THEN 1 ELSE 2
varstring_length(string_length) == varint_length(string_length) + string_length

\* version byte, ratchet key, counter, ciphertext, then the truncated MAC
encode_message_length(counter, ratchet_key_length, ciphertext_length, mac_length) ==
    1 + (1 + varstring_length(ratchet_key_length)) + (1 + varint_length(counter))
      + (1 + varstring_length(ciphertext_length)) + mac_length

\* version byte, one-time key, identity key, base key, embedded message
encode_one_time_key_message_length(one_time_key_length, identity_key_length, base_key_length, message_length) ==
    1 + (1 + varstring_length(one_time_key_length))
      + (1 + varstring_length(identity_key_length))
      + (1 + varstring_length(base_key_length))
      + (1 + varstring_length(message_length))

(***************************************************************************)
(* Cipher: AES-256-CBC with PKCS#7 padding and a truncated HMAC-SHA-256.   *)
(***************************************************************************)
encrypt_ciphertext_length(plaintext_length) ==
    plaintext_length + 16 - (plaintext_length % 16)

\* the ciphertext of plaintext under a message key
CipherText(key, plaintext) == [key |-> key, pt |-> plaintext, alt |-> 0]

\* the MAC, under a message key, of the framed message up to the MAC
CipherMac(key, version, ratchet_key, counter, ciphertext) ==
    [key |-> key, version |-> version, ratchet_key |-> ratchet_key,
     counter |-> counter, ciphertext |-> ciphertext, alt |-> 0]

(***************************************************************************)
(* Ratchet: the Double Ratchet.  A root key is the sequence of the secrets *)
(* mixed into it by HKDF; a chain key is the HKDF output it was seeded     *)
(* with and the number of HMAC steps applied since.                        *)
(***************************************************************************)
NewRatchet ==
    [root_key |-> <<>>, sender_chain |-> <<>>, receiver_chains |-> <<>>,
     skipped_message_keys |-> <<>>, last_error |-> "SUCCESS"]

\* HKDF(salt = 0, secret, ROOT_KDF_INFO): root key and chain key
\* HKDF(salt = root_key, DH output, RATCHET_KDF_INFO): next root key and chain key
KdfRoot(root_key, ikm) == root_key \o ikm
InitialChainKey(seed) == [index |-> 0, key |-> [seed |-> seed, adv |-> 0]]

\* HMAC(chain.key, [0x01]) : the message key of the chain's current index
create_message_keys(chain_key) == [index |-> chain_key.index, key |-> chain_key.key]

\* HMAC(chain.key, [0x02]), n times
advance_chain_key(chain_key, n) ==
    [index |-> chain_key.index + n,
     key |-> [seed |-> chain_key.key.seed, adv |-> chain_key.key.adv + n]]

initialise_as_alice(ratchet, secret, our_ratchet_key) ==
    LET derived == KdfRoot(<<>>, secret) IN
    [ratchet EXCEPT
        !.root_key = derived,
        !.sender_chain = <<[ratchet_key |-> our_ratchet_key,
                            chain_key |-> InitialChainKey(derived)]>>,
        !.receiver_chains = <<>>,
        !.skipped_message_keys = <<>>]

initialise_as_bob(ratchet, secret, their_ratchet_key) ==
    LET derived == KdfRoot(<<>>, secret) IN
    [ratchet EXCEPT
        !.root_key = derived,
        !.sender_chain = <<>>,
        !.receiver_chains = <<[ratchet_key |-> their_ratchet_key,
                               chain_key |-> InitialChainKey(derived)]>>,
        !.skipped_message_keys = <<>>]

RatchetInitialised(ratchet) ==
    ratchet.sender_chain # <<>> \/ ratchet.receiver_chains # <<>>

Ratchet_encrypt_output_length(ratchet, plaintext_length) ==
    LET counter == IF ratchet.sender_chain = <<>> THEN 0
                   ELSE ratchet.sender_chain[1].chain_key.index
    IN encode_message_length(counter, KEY_LENGTH,
                             encrypt_ciphertext_length(plaintext_length), MAC_LENGTH)

Ratchet_encrypt_random_length(ratchet) ==
    IF ratchet.sender_chain = <<>> THEN KEY_LENGTH ELSE 0

\* Ratchet::encrypt.  random is the sequence of key seeds handed in (one seed
\* per KEY_LENGTH bytes).  Result: the ratchet after the call, the returned
\* length or ERR, and the message written.
Ratchet_encrypt(ratchet, plaintext, random, max_output_length) ==
    LET output_length == Ratchet_encrypt_output_length(ratchet, Len(plaintext))
        fail(e) == [ratchet |-> [ratchet EXCEPT !.last_error = e],
                    result |-> ERR, message |-> <<>>]
    IN
    IF Len(random) * KEY_LENGTH < Ratchet_encrypt_random_length(ratchet)
    THEN fail("NOT_ENOUGH_RANDOM")
    ELSE IF max_output_length < output_length
    THEN fail("OUTPUT_BUFFER_TOO_SMALL")
    ELSE
      LET stepped ==
            IF ratchet.sender_chain # <<>> THEN ratchet
            ELSE LET key_pair == curve25519_generate_key(random[1])
                     dh == curve25519_shared_secret(
                               key_pair, ratchet.receiver_chains[1].ratchet_key)
                     derived == KdfRoot(ratchet.root_key, <<dh>>)
                 IN [ratchet EXCEPT
                        !.root_key = derived,
                        !.sender_chain = <<[ratchet_key |-> key_pair,
                                            chain_key |-> InitialChainKey(derived)]>>]
          chain == stepped.sender_chain[1]
          keys == create_message_keys(chain.chain_key)
          ciphertext == <<CipherText(keys.key, plaintext)>>
          message == [version |-> PROTOCOL_VERSION,
                      ratchet_key |-> chain.ratchet_key.public_key,
                      ratchet_key_length |-> KEY_LENGTH,
                      counter |-> keys.index,
                      ciphertext |-> ciphertext,
                      mac |-> CipherMac(keys.key, PROTOCOL_VERSION,
                                        chain.ratchet_key.public_key,
                                        keys.index, ciphertext)]
      IN [ratchet |-> [stepped EXCEPT
                          !.sender_chain[1].chain_key =
                              advance_chain_key(chain.chain_key, 1)],
          result |-> output_length,
          message |-> <<message>>]

\* Ratchet::decrypt_max_plaintext_length.  Result: the ratchet after the call
\* and the returned value.
Ratchet_decrypt_max_plaintext_length(ratchet, message) ==
    IF message = <<>> \/ message[1].ciphertext = <<>>
    THEN [ratchet |-> [ratchet EXCEPT !.last_error = "BAD_MESSAGE_FORMAT"],
          result |-> ERR]
    ELSE [ratchet |-> ratchet,
          result |-> encrypt_ciphertext_length(Len(message[1].ciphertext[1].pt))]

\* the position of the receiver chain with this ratchet key, 0 when there is none
FindChain(chains, ratchet_key) ==
    LET hits == {i \in 1..Len(chains) : chains[i].ratchet_key = ratchet_key}
    IN IF hits = {} THEN 0 ELSE CHOOSE i \in hits : \A j \in hits : i <= j

FindSkipped(skipped, ratchet_key, counter) ==
    LET hits == {i \in 1..Len(skipped) :
                    /\ skipped[i].ratchet_key = ratchet_key
                    /\ skipped[i].message_key.index = counter}
    IN IF hits = {} THEN 0 ELSE CHOOSE i \in hits : \A j \in hits : i <= j

RemoveAt(seq, i) == SubSeq(seq, 1, i - 1) \o SubSeq(seq, i + 1, Len(seq))

\* a bounded FIFO: the oldest entries (at the head) are dropped on overflow
KeepNewest(seq, max) ==
    IF Len(seq) <= max THEN seq ELSE SubSeq(seq, Len(seq) - max + 1, Len(seq))

\* the message keys passed over when a chain moves from its index to counter
SkippedKeys(ratchet_key, chain_key, counter) ==
    [i \in 1..(counter - chain_key.index) |->
        [ratchet_key |-> ratchet_key,
         message_key |-> create_message_keys(advance_chain_key(chain_key, i - 1))]]

\* Cipher decrypt: the MAC is recomputed over the framed message and compared
\* with the tag; only then is the ciphertext decrypted.
VerifyMac(key, m) ==
    m.mac = CipherMac(key, m.version, m.ratchet_key, m.counter, m.ciphertext)

\* Ratchet::decrypt.  Result: the ratchet after the call, the plaintext length
\* or ERR, and the plaintext written.  Nothing but last_error changes unless
\* the MAC is verified.
Ratchet_decrypt(ratchet, message, max_plaintext_length) ==
    LET fail(e) == [ratchet |-> [ratchet EXCEPT !.last_error = e],
                    result |-> ERR, plaintext |-> <<>>]
    IN
    IF message = <<>> THEN fail("BAD_MESSAGE_FORMAT")
    ELSE LET m == message[1] IN
    IF m.version # PROTOCOL_VERSION THEN fail("BAD_MESSAGE_VERSION")
    ELSE IF m.counter = NoKey \/ m.ratchet_key = NoKey \/ m.ciphertext = <<>>
    THEN fail("BAD_MESSAGE_FORMAT")
    ELSE IF m.ratchet_key_length # KEY_LENGTH THEN fail("BAD_MESSAGE_FORMAT")
    ELSE IF max_plaintext_length < encrypt_ciphertext_length(Len(m.ciphertext[1].pt))
    THEN fail("OUTPUT_BUFFER_TOO_SMALL")
    ELSE
      LET at == FindChain(ratchet.receiver_chains, m.ratchet_key)
          ok(r, key) ==
              IF ~VerifyMac(key, m) THEN fail("BAD_MESSAGE_MAC")
              ELSE IF m.ciphertext[1].key # key \/ m.ciphertext[1].alt # 0
              THEN fail("BAD_MESSAGE_FORMAT")
              ELSE [ratchet |-> r, result |-> Len(m.ciphertext[1].pt),
                    plaintext |-> m.ciphertext[1].pt]
      IN
      IF at = 0 THEN
          \* a new ratchet key: the receiving DH ratchet
          IF ratchet.sender_chain = <<>> THEN fail("BAD_MESSAGE_MAC")
          ELSE
            LET dh == curve25519_shared_secret(
                          ratchet.sender_chain[1].ratchet_key, m.ratchet_key)
                derived == KdfRoot(ratchet.root_key, <<dh>>)
                chain_key == InitialChainKey(derived)
                keys == create_message_keys(
                            advance_chain_key(chain_key, m.counter))
                chain == [ratchet_key |-> m.ratchet_key,
                          chain_key |-> advance_chain_key(chain_key, m.counter + 1)]
            IN ok([ratchet EXCEPT
                      !.root_key = derived,
                      !.sender_chain = <<>>,
                      !.receiver_chains =
                          SubSeq(<<chain>> \o @, 1,
                                 IF Len(@) + 1 > MAX_RECEIVER_CHAINS
                                 THEN MAX_RECEIVER_CHAINS ELSE Len(@) + 1),
                      !.skipped_message_keys =
                          KeepNewest(@ \o SkippedKeys(m.ratchet_key, chain_key,
                                                     m.counter),
                                     MAX_SKIPPED_MESSAGE_KEYS)],
                  keys.key)
      ELSE
        LET chain == ratchet.receiver_chains[at] IN
        IF m.counter < chain.chain_key.index THEN
            LET sk == FindSkipped(ratchet.skipped_message_keys,
                                  m.ratchet_key, m.counter)
            IN IF sk = 0 THEN fail("UNKNOWN_MESSAGE_INDEX")
               ELSE ok([ratchet EXCEPT
                           !.skipped_message_keys = RemoveAt(@, sk)],
                       ratchet.skipped_message_keys[sk].message_key.key)
        ELSE
            LET steps == m.counter - chain.chain_key.index
                keys == create_message_keys(
                            advance_chain_key(chain.chain_key, steps))
            IN ok([ratchet EXCEPT
                      !.receiver_chains[at].chain_key =
                          advance_chain_key(chain.chain_key, steps + 1),
                      !.skipped_message_keys =
                          KeepNewest(@ \o SkippedKeys(m.ratchet_key,
                                                     chain.chain_key, m.counter),
                                     MAX_SKIPPED_MESSAGE_KEYS)],
                  keys.key)

(***************************************************************************)
(* Wire messages.  One record shape carries both message types: a pre-key  *)
(* envelope holds the three keys around the embedded message, a normal     *)
(* message only the ratchet's output.  A field a decoder does not find is  *)
(* NoKey (a null pointer) with length 0; an absent embedded message is <<>>.*)
(***************************************************************************)
PreKeyMessage(one_time_key, identity_key, base_key, body) ==
    [type |-> "PRE_KEY", version |-> PROTOCOL_VERSION,
     one_time_key |-> one_time_key, one_time_key_length |-> KEY_LENGTH,
     identity_key |-> identity_key, identity_key_length |-> KEY_LENGTH,
     base_key |-> base_key, base_key_length |-> KEY_LENGTH,
     message |-> body]

NormalMessage(body) ==
    [type |-> "MESSAGE", version |-> PROTOCOL_VERSION,
     one_time_key |-> NoKey, one_time_key_length |-> 0,
     identity_key |-> NoKey, identity_key_length |-> 0,
     base_key |-> NoKey, base_key_length |-> 0,
     message |-> body]

\* decode_one_time_key_message: the reader of a buffer decoded as an envelope
decode_one_time_key_message(message) ==
    IF message.type = "PRE_KEY" THEN message ELSE PreKeyMessage(NoKey, NoKey, NoKey, <<>>)

\* decode_message: the reader of a buffer decoded as a normal message
decode_message(message) ==
    IF message.type = "MESSAGE" THEN message ELSE NormalMessage(<<>>)

(***************************************************************************)
(* Session                                                                 *)
(***************************************************************************)
\* what the storage of a Session object can hold where the constructor
\* writes nothing: zero bytes, the keys of a session destroyed there before,
\* or a fill pattern
Zeroed == <<0, 0, 0>>
Storage ==
    { Zeroed,
      <<curve25519_generate_key(3).public_key,
        curve25519_generate_key(17).public_key,
        curve25519_generate_key(11).public_key>>,
      <<170, 170, 170>> }

\* Session::Session(): ratchet, last_error and received_message are
\* initialised; the three stored keys keep what the storage held.
NewSession(storage) ==
    [received_message |-> FALSE,
     alice_identity_key |-> storage[1], alice_base_key |-> storage[2],
     bob_one_time_key |-> storage[3],
     ratchet |-> NewRatchet, last_error |-> "SUCCESS"]

new_outbound_session_random_length == KEY_LENGTH * 2

\* faulty variant: the first two blocks of the secret in the other order
OutboundSecret_BlocksSwapped(alice_identity_key_pair, base_key, identity_key, one_time_key) ==
    << curve25519_shared_secret(base_key, identity_key),
       curve25519_shared_secret(alice_identity_key_pair, one_time_key),
       curve25519_shared_secret(base_key, one_time_key) >>

\* the three Diffie-Hellman outputs, in the order Alice concatenates them
OutboundSecret(alice_identity_key_pair, base_key, identity_key, one_time_key) ==
    << curve25519_shared_secret(alice_identity_key_pair, one_time_key),
       curve25519_shared_secret(base_key, identity_key),
       curve25519_shared_secret(base_key, one_time_key) >>

\* Session::new_outbound_session.  Result: the session after the call, the
\* returned value, and the secret handed to initialise_as_alice (<<>> if none).
new_outbound_session(session, local_account, identity_key, one_time_key, random) ==
    IF Len(random) * KEY_LENGTH < new_outbound_session_random_length
    THEN [session |-> [session EXCEPT !.last_error = "NOT_ENOUGH_RANDOM"],
          result |-> ERR, secret |-> <<>>]
    ELSE
      LET base_key == curve25519_generate_key(random[1])
          ratchet_key == curve25519_generate_key(random[2])
          alice_identity_key_pair == local_account.identity
          secret == OutboundSecret(alice_identity_key_pair, base_key,
                                   identity_key, one_time_key)
      IN [session |-> [session EXCEPT
                          !.received_message = FALSE,
                          !.alice_identity_key = alice_identity_key_pair.public_key,
                          !.alice_base_key = base_key.public_key,
                          !.bob_one_time_key = one_time_key,
                          !.ratchet = initialise_as_alice(@, secret, ratchet_key)],
          result |-> 0, secret |-> secret]

check_message_fields(reader, have_their_identity_key) ==
    /\ (have_their_identity_key \/ reader.identity_key # NoKey)
    /\ (reader.identity_key # NoKey => reader.identity_key_length = KEY_LENGTH)
    /\ reader.message # <<>>
    /\ reader.base_key # NoKey
    /\ reader.base_key_length = KEY_LENGTH
    /\ reader.one_time_key # NoKey
    /\ reader.one_time_key_length = KEY_LENGTH

\* olm::load_array(destination, source): the bytes read, or, for a null
\* source, the process killed at the read (SIGSEGV)
load_array(source) == [crashed |-> source = NoKey, value |-> source]

\* faulty variant: the last block computed with the identity key in place of
\* the one-time key
InboundSecret_WrongKey(bob_one_time_key, bob_identity_key, alice_identity_key, alice_base_key) ==
    << curve25519_shared_secret(bob_one_time_key, alice_identity_key),
       curve25519_shared_secret(bob_identity_key, alice_base_key),
       curve25519_shared_secret(bob_identity_key, alice_base_key) >>

\* the three Diffie-Hellman outputs, in the order Bob concatenates them
InboundSecret(bob_one_time_key, bob_identity_key, alice_identity_key, alice_base_key) ==
    << curve25519_shared_secret(bob_one_time_key, alice_identity_key),
       curve25519_shared_secret(bob_identity_key, alice_base_key),
       curve25519_shared_secret(bob_one_time_key, alice_base_key) >>

\* Session::new_inbound_session.  their_identity_key is NoKey for a null
\* pointer.  Result as for new_outbound_session, the secret being the one
\* handed to initialise_as_bob; crashed tells that the process was killed
\* inside the call, which then returns nothing and leaves no session.
new_inbound_session(session, local_account, their_identity_key, message) ==
    LET reader == decode_one_time_key_message(message)
        fail(sn, e) == [session |-> [sn EXCEPT !.last_error = e],
                        result |-> ERR, secret |-> <<>>, crashed |-> FALSE]
    IN
    IF ~check_message_fields(reader, their_identity_key # NoKey)
    THEN fail(session, "BAD_MESSAGE_FORMAT")
    ELSE IF /\ reader.identity_key # NoKey
            /\ their_identity_key # NoKey
            /\ their_identity_key # reader.identity_key
    THEN fail(session, "BAD_MESSAGE_KEY_ID")
    ELSE IF load_array(reader.identity_key).crashed
    THEN [session |-> session, result |-> ERR, secret |-> <<>>,
          crashed |-> TRUE]
    ELSE
      LET loaded == [session EXCEPT
                        !.alice_identity_key = load_array(reader.identity_key).value,
                        !.alice_base_key = load_array(reader.base_key).value,
                        !.bob_one_time_key = load_array(reader.one_time_key).value]
          message_reader == reader.message[1]
      IN
      IF \/ message_reader.ratchet_key = NoKey
         \/ message_reader.ratchet_key_length # KEY_LENGTH
      THEN fail(loaded, "BAD_MESSAGE_FORMAT")
      ELSE
        LET ratchet_key == message_reader.ratchet_key
            our_one_time_key == lookup_key(local_account, loaded.bob_one_time_key)
        IN
        IF our_one_time_key = <<>>
        THEN fail(loaded, "BAD_MESSAGE_KEY_ID")
        ELSE
          LET secret == InboundSecret(our_one_time_key[1], local_account.identity,
                                      loaded.alice_identity_key,
                                      loaded.alice_base_key)
          IN [session |-> [loaded EXCEPT
                              !.ratchet = initialise_as_bob(@, secret, ratchet_key)],
              result |-> 0, secret |-> secret, crashed |-> FALSE]

session_id_length == SHA256_OUTPUT_LENGTH

\* Session::session_id.  Result: the session after the call, the returned
\* value and the id written (<<>> if none).
session_id(session, id_length) ==
    IF id_length < session_id_length
    THEN [session |-> [session EXCEPT !.last_error = "OUTPUT_BUFFER_TOO_SMALL"],
          result |-> ERR, id |-> <<>>]
    ELSE [session |-> session,
          result |-> session_id_length,
          id |-> <<sha256(<<session.alice_identity_key,
                            session.alice_base_key,
                            session.bob_one_time_key>>)>>]

\* faulty variant: a malformed envelope reported in last_error, as
\* new_inbound_session reports it
matches_inbound_session_SetsError(session, their_identity_key, message) ==
    LET reader == decode_one_time_key_message(message) IN
    IF ~check_message_fields(reader, their_identity_key # NoKey)
    THEN [session |-> [session EXCEPT !.last_error = "BAD_MESSAGE_FORMAT"],
          result |-> FALSE]
    ELSE [session |-> session,
          result |->
             /\ (reader.identity_key # NoKey =>
                    reader.identity_key = session.alice_identity_key)
             /\ (their_identity_key # NoKey =>
                    their_identity_key = session.alice_identity_key)
             /\ reader.base_key = session.alice_base_key
             /\ reader.one_time_key = session.bob_one_time_key]

\* faulty variant: the caller's expected identity key not compared
matches_inbound_session_IgnoresExpected(session, their_identity_key, message) ==
    LET reader == decode_one_time_key_message(message) IN
    IF ~check_message_fields(reader, their_identity_key # NoKey)
    THEN [session |-> session, result |-> FALSE]
    ELSE [session |-> session,
          result |->
             /\ (reader.identity_key # NoKey =>
                    reader.identity_key = session.alice_identity_key)
             /\ reader.base_key = session.alice_base_key
             /\ reader.one_time_key = session.bob_one_time_key]

\* Session::matches_inbound_session.  Result: the session after the call
\* and the returned value.
matches_inbound_session(session, their_identity_key, message) ==
    LET reader == decode_one_time_key_message(message) IN
    IF ~check_message_fields(reader, their_identity_key # NoKey)
    THEN [session |-> session, result |-> FALSE]
    ELSE [session |-> session,
          result |->
             /\ (reader.identity_key # NoKey =>
                    reader.identity_key = session.alice_identity_key)
             /\ (their_identity_key # NoKey =>
                    their_identity_key = session.alice_identity_key)
             /\ reader.base_key = session.alice_base_key
             /\ reader.one_time_key = session.bob_one_time_key]

encrypt_message_type(session) ==
    IF session.received_message THEN "MESSAGE" ELSE "PRE_KEY"

encrypt_message_length(session, plaintext_length) ==
    LET message_length ==
            Ratchet_encrypt_output_length(session.ratchet, plaintext_length)
    IN IF session.received_message THEN message_length
       ELSE encode_one_time_key_message_length(
                KEY_LENGTH, KEY_LENGTH, KEY_LENGTH, message_length)

encrypt_random_length(session) == Ratchet_encrypt_random_length(session.ratchet)

\* faulty variant: the one-time key written into the base key field too
WriteEnvelope_OneTimeKeyAsBase(session, body) ==
    PreKeyMessage(session.bob_one_time_key, session.alice_identity_key,
                  session.bob_one_time_key, body)

\* faulty variant: the identity key and the base key written into each
\* other's field
WriteEnvelope_KeysSwapped(session, body) ==
    PreKeyMessage(session.bob_one_time_key, session.alice_base_key,
                  session.alice_identity_key, body)

\* the envelope encrypt writes around the ratchet's output
WriteEnvelope(session, body) ==
    PreKeyMessage(session.bob_one_time_key, session.alice_identity_key,
                  session.alice_base_key, body)

\* Session::encrypt.  Result: the session after the call, the returned value
\* and the message written (<<>> if none).
encrypt(session, plaintext, random, message_length) ==
    IF message_length < encrypt_message_length(session, Len(plaintext))
    THEN [session |-> [session EXCEPT !.last_error = "OUTPUT_BUFFER_TOO_SMALL"],
          result |-> ERR, message |-> <<>>]
    ELSE
      LET message_body_length ==
              Ratchet_encrypt_output_length(session.ratchet, Len(plaintext))
          r == Ratchet_encrypt(session.ratchet, plaintext, random,
                               message_body_length)
      IN
      IF r.result = ERR
      THEN [session |-> [session EXCEPT
                            !.last_error = r.ratchet.last_error,
                            !.ratchet = [r.ratchet EXCEPT !.last_error = "SUCCESS"]],
            result |-> ERR, message |-> <<>>]
      ELSE [session |-> [session EXCEPT !.ratchet = r.ratchet],
            result |-> r.result,
            message |->
                IF session.received_message
                THEN <<NormalMessage(r.message)>>
                ELSE <<WriteEnvelope(session, r.message)>>]

\* Session::decrypt_max_plaintext_length.  Result: the session after the
\* call and the returned value.
decrypt_max_plaintext_length(session, message_type, message) ==
    LET reader == IF message_type = "MESSAGE" THEN decode_message(message)
                  ELSE decode_one_time_key_message(message)
    IN
    IF message_type # "MESSAGE" /\ reader.message = <<>>
    THEN [session |-> [session EXCEPT !.last_error = "BAD_MESSAGE_FORMAT"],
          result |-> ERR]
    ELSE
      LET r == Ratchet_decrypt_max_plaintext_length(session.ratchet,
                                                    reader.message)
      IN IF r.result = ERR
         THEN [session |-> [session EXCEPT
                               !.last_error = r.ratchet.last_error,
                               !.ratchet = [r.ratchet EXCEPT
                                               !.last_error = "SUCCESS"]],
               result |-> ERR]
         ELSE [session |-> [session EXCEPT !.ratchet = r.ratchet],
               result |-> r.result]

\* faulty variant: the one-time key forgotten once a message is decrypted
DecryptResult_ForgetsKey(session, r) ==
    IF r.result = ERR
    THEN [session |-> [session EXCEPT
                          !.last_error = r.ratchet.last_error,
                          !.ratchet = [r.ratchet EXCEPT !.last_error = "SUCCESS"]],
          result |-> ERR, plaintext |-> <<>>]
    ELSE [session |-> [session EXCEPT
                          !.ratchet = r.ratchet,
                          !.bob_one_time_key = 0,
                          !.received_message = TRUE],
          result |-> r.result, plaintext |-> r.plaintext]

\* faulty variant: the ratchet's error copied and left in the ratchet
DecryptResult_ErrorLeft(session, r) ==
    IF r.result = ERR
    THEN [session |-> [session EXCEPT
                          !.last_error = r.ratchet.last_error,
                          !.ratchet = r.ratchet],
          result |-> ERR, plaintext |-> <<>>]
    ELSE [session |-> [session EXCEPT
                          !.ratchet = r.ratchet,
                          !.received_message = TRUE],
          result |-> r.result, plaintext |-> r.plaintext]

\* faulty variant: received_message set before the result is looked at
DecryptResult_FlagFirst(session, r) ==
    IF r.result = ERR
    THEN [session |-> [session EXCEPT
                          !.received_message = TRUE,
                          !.last_error = r.ratchet.last_error,
                          !.ratchet = [r.ratchet EXCEPT !.last_error = "SUCCESS"]],
          result |-> ERR, plaintext |-> <<>>]
    ELSE [session |-> [session EXCEPT
                          !.ratchet = r.ratchet,
                          !.received_message = TRUE],
          result |-> r.result, plaintext |-> r.plaintext]

\* faulty variant: received_message cleared when the ratchet fails
DecryptResult_FlagCleared(session, r) ==
    IF r.result = ERR
    THEN [session |-> [session EXCEPT
                          !.received_message = FALSE,
                          !.last_error = r.ratchet.last_error,
                          !.ratchet = [r.ratchet EXCEPT !.last_error = "SUCCESS"]],
          result |-> ERR, plaintext |-> <<>>]
    ELSE [session |-> [session EXCEPT
                          !.ratchet = r.ratchet,
                          !.received_message = TRUE],
          result |-> r.result, plaintext |-> r.plaintext]

\* what decrypt does with the ratchet's result r
DecryptResult(session, r) ==
    IF r.result = ERR
    THEN [session |-> [session EXCEPT
                          !.last_error = r.ratchet.last_error,
                          !.ratchet = [r.ratchet EXCEPT !.last_error = "SUCCESS"]],
          result |-> ERR, plaintext |-> <<>>]
    ELSE [session |-> [session EXCEPT
                          !.ratchet = r.ratchet,
                          !.received_message = TRUE],
          result |-> r.result, plaintext |-> r.plaintext]

\* Session::decrypt.  Result: the session after the call, the returned value
\* and the plaintext written.
decrypt(session, message_type, message, max_plaintext_length) ==
    LET reader == IF message_type = "MESSAGE" THEN decode_message(message)
                  ELSE decode_one_time_key_message(message)
    IN
    IF message_type # "MESSAGE" /\ reader.message = <<>>
    THEN [session |-> [session EXCEPT !.last_error = "BAD_MESSAGE_FORMAT"],
          result |-> ERR, plaintext |-> <<>>]
    ELSE DecryptResult(session,
                       Ratchet_decrypt(session.ratchet, reader.message,
                                       max_plaintext_length))

(***************************************************************************)
(* Pickling.  A pickle is the sequence of its fields in the order written, *)
(* each a cell holding the number of bytes it takes and the value encoded: *)
(* a u32 takes 4 bytes, a boolean 1 byte (0 or 1), a key KEY_LENGTH bytes.  *)
(***************************************************************************)
SESSION_PICKLE_VERSION == 1

PickleBytes(cells) ==
    LET RECURSIVE Sum(_)
        Sum(i) == IF i = 0 THEN 0 ELSE cells[i].bytes + Sum(i - 1)
    IN Sum(Len(cells))

pickle_uint32(value) == <<[bytes |-> 4, value |-> value]>>
pickle_bool(value) == <<[bytes |-> 1, value |-> IF value THEN 1 ELSE 0]>>
pickle_key(value) == <<[bytes |-> KEY_LENGTH, value |-> value]>>

\* reading a field of so many bytes at cell i: the value and the next cell
unpickle_cell(cells, i, bytes) ==
    IF i <= Len(cells) /\ cells[i].bytes = bytes
    THEN [value |-> cells[i].value, next |-> i + 1]
    ELSE [value |-> 0, next |-> Len(cells) + 1]

\* the ratchet's pickle: root key, sender chain, receiver chains, skipped
\* message keys, each list behind its u32 count
pickle_ratchet(ratchet) ==
    << [bytes |-> KEY_LENGTH, value |-> ratchet.root_key],
       [bytes |-> 4 + Len(ratchet.sender_chain) * (3 * KEY_LENGTH + 4),
        value |-> ratchet.sender_chain],
       [bytes |-> 4 + Len(ratchet.receiver_chains) * (2 * KEY_LENGTH + 4),
        value |-> ratchet.receiver_chains],
       [bytes |-> 4 + Len(ratchet.skipped_message_keys) * (2 * KEY_LENGTH + 4),
        value |-> ratchet.skipped_message_keys] >>

unpickle_ratchet(cells, i, ratchet) ==
    IF i + 3 > Len(cells)
    THEN [value |-> ratchet, next |-> Len(cells) + 1]
    ELSE [value |-> [ratchet EXCEPT
                        !.root_key = cells[i].value,
                        !.sender_chain = cells[i + 1].value,
                        !.receiver_chains = cells[i + 2].value,
                        !.skipped_message_keys = cells[i + 3].value],
          next |-> i + 4]

\* olm::pickle_length(Session)
pickle_length(value) ==
    PickleBytes(pickle_uint32(SESSION_PICKLE_VERSION))
    + PickleBytes(pickle_bool(value.received_message))
    + PickleBytes(pickle_key(value.alice_identity_key))
    + PickleBytes(pickle_key(value.alice_base_key))
    + PickleBytes(pickle_key(value.bob_one_time_key))
    + PickleBytes(pickle_ratchet(value.ratchet))

\* olm::pickle(pos, Session): the bytes written
pickle(value) ==
    pickle_uint32(SESSION_PICKLE_VERSION)
    \o pickle_bool(value.received_message)
    \o pickle_key(value.alice_identity_key)
    \o pickle_key(value.alice_base_key)
    \o pickle_key(value.bob_one_time_key)
    \o pickle_ratchet(value.ratchet)

\* faulty variant: the base key and the identity key read in the other order
unpickle_KeysSwapped(cells, value) ==
    LET version == unpickle_cell(cells, 1, 4) IN
    IF version.value # SESSION_PICKLE_VERSION
    THEN [session |-> [value EXCEPT !.last_error = "UNKNOWN_PICKLE_VERSION"],
          pos |-> PickleBytes(cells)]
    ELSE
      LET received == unpickle_cell(cells, version.next, 1)
          base == unpickle_cell(cells, received.next, KEY_LENGTH)
          identity == unpickle_cell(cells, base.next, KEY_LENGTH)
          one_time == unpickle_cell(cells, identity.next, KEY_LENGTH)
          ratchet == unpickle_ratchet(cells, one_time.next, value.ratchet)
      IN [session |-> [value EXCEPT
                          !.received_message = (received.value # 0),
                          !.alice_identity_key = identity.value,
                          !.alice_base_key = base.value,
                          !.bob_one_time_key = one_time.value,
                          !.ratchet = ratchet.value],
          pos |-> PickleBytes(SubSeq(cells, 1, ratchet.next - 1))]

\* faulty variant: the version word read and not compared
unpickle_AnyVersion(cells, value) ==
    LET version == unpickle_cell(cells, 1, 4)
        received == unpickle_cell(cells, version.next, 1)
        identity == unpickle_cell(cells, received.next, KEY_LENGTH)
        base == unpickle_cell(cells, identity.next, KEY_LENGTH)
        one_time == unpickle_cell(cells, base.next, KEY_LENGTH)
        ratchet == unpickle_ratchet(cells, one_time.next, value.ratchet)
    IN [session |-> [value EXCEPT
                        !.received_message = (received.value # 0),
                        !.alice_identity_key = identity.value,
                        !.alice_base_key = base.value,
                        !.bob_one_time_key = one_time.value,
                        !.ratchet = ratchet.value],
        pos |-> PickleBytes(SubSeq(cells, 1, ratchet.next - 1))]

\* olm::unpickle(pos, end, Session).  cells: the bytes from pos to end.
\* Result: the session after the call and the number of bytes after which
\* the returned position lies.
unpickle(cells, value) ==
    LET version == unpickle_cell(cells, 1, 4) IN
    IF version.value # SESSION_PICKLE_VERSION
    THEN [session |-> [value EXCEPT !.last_error = "UNKNOWN_PICKLE_VERSION"],
          pos |-> PickleBytes(cells)]
    ELSE
      LET received == unpickle_cell(cells, version.next, 1)
          identity == unpickle_cell(cells, received.next, KEY_LENGTH)
          base == unpickle_cell(cells, identity.next, KEY_LENGTH)
          one_time == unpickle_cell(cells, base.next, KEY_LENGTH)
          ratchet == unpickle_ratchet(cells, one_time.next, value.ratchet)
      IN [session |-> [value EXCEPT
                          !.received_message = (received.value # 0),
                          !.alice_identity_key = identity.value,
                          !.alice_base_key = base.value,
                          !.bob_one_time_key = one_time.value,
                          !.ratchet = ratchet.value],
          pos |-> PickleBytes(SubSeq(cells, 1, ratchet.next - 1))]

(***************************************************************************)
(* The pairwise system: one Session object per party, and the message in   *)
(* flight.  hist and last record what happened, for the properties only.   *)
(***************************************************************************)
NoHist == [epoch |-> 0, role |-> "none", secret |-> <<>>, from |-> -1,
           decrypted |-> FALSE]

NoLast == [op |-> "none", who |-> "A", result |-> 0, genuine |-> FALSE,
           altered |-> FALSE, accepts |-> FALSE, max |-> 0, out |-> <<>>,
           sent |-> <<>>, their |-> NoKey, crashed |-> FALSE]

InitP ==
    /\ \E a, b \in Storage :
          /\ sess = [s \in Party |-> NewSession(IF s = "A" THEN a ELSE b)]
          /\ pre = NewSession(a)
    /\ wire = <<>>
    /\ last = NoLast
    /\ hist = [s \in Party |-> NoHist]
    /\ budget = [new |-> 0, enc |-> 0, rnd |-> 0, fail |-> 0]

\* a call that returns the error sentinel is charged to the budget of failures
Charge(result, b) ==
    /\ result = ERR => b.fail < MaxFail
    /\ budget' = [b EXCEPT !.fail = IF result = ERR THEN @ + 1 ELSE @]

\* the message in flight is what the sender's present session wrote
Genuine(w) == w.msg = w.orig /\ w.epoch = hist[Peer(w.to)].epoch

NewOutbound(s) ==
    /\ ~last.crashed
    /\ budget.new < MaxNew
    /\ \E one_time_key \in PublishedKeys(Peer(s)),
          random \in OutboundRandom \cup {<<17>>} :
        LET r == new_outbound_session(sess[s], Account[s],
                     Account[Peer(s)].identity.public_key, one_time_key, random)
        IN /\ sess' = [sess EXCEPT ![s] = r.session]
           /\ pre' = sess[s]
           /\ last' = [NoLast EXCEPT !.op = "new_outbound_session", !.who = s,
                                     !.result = r.result]
           /\ hist' = IF r.result = ERR THEN hist
                      ELSE [hist EXCEPT ![s] =
                               [epoch |-> budget.new + 1, role |-> "outbound",
                                secret |-> r.secret, from |-> -1,
                                decrypted |-> FALSE]]
           /\ Charge(r.result, [budget EXCEPT !.new = @ + 1])
    /\ UNCHANGED wire

NewInbound(s) ==
    /\ ~last.crashed
    /\ budget.new < MaxNew
    /\ wire # <<>> /\ wire[1].to = s
    /\ \E their_identity_key \in {NoKey, Account[Peer(s)].identity.public_key,
                                  Account[s].identity.public_key} :
        LET r == new_inbound_session(sess[s], Account[s], their_identity_key,
                                     wire[1].msg)
        IN /\ sess' = [sess EXCEPT ![s] = r.session]
           /\ pre' = sess[s]
           /\ last' = [NoLast EXCEPT !.op = "new_inbound_session", !.who = s,
                                     !.result = r.result,
                                     !.crashed = r.crashed,
                                     !.genuine = Genuine(wire[1]),
                                     !.altered = (wire[1].msg # wire[1].orig)]
           /\ hist' = IF r.result = ERR THEN hist
                      ELSE [hist EXCEPT ![s] =
                               [epoch |-> budget.new + 1, role |-> "inbound",
                                secret |-> r.secret,
                                from |-> IF Genuine(wire[1]) THEN wire[1].epoch
                                         ELSE -1,
                                decrypted |-> FALSE]]
           /\ Charge(r.result, [budget EXCEPT !.new = @ + 1])
    /\ UNCHANGED wire

\* the messages of a run carry the two plaintexts in turn
Encrypt(s) ==
    /\ ~last.crashed
    /\ budget.enc < MaxEnc
    /\ wire = <<>>
    /\ RatchetInitialised(sess[s].ratchet)
    /\ \E plaintext \in {IF budget.enc % 2 = 0 THEN <<7>> ELSE <<8, 9>>},
          random \in {<<>>, <<EncryptSeeds[budget.rnd + 1]>>} :
       \E message_length \in {0, encrypt_message_length(sess[s], Len(plaintext))} :
        LET r == encrypt(sess[s], plaintext, random, message_length)
            drew == r.result # ERR /\ encrypt_random_length(sess[s]) > 0
        IN /\ sess' = [sess EXCEPT ![s] = r.session]
           /\ pre' = sess[s]
           /\ last' = [NoLast EXCEPT !.op = "encrypt", !.who = s,
                                     !.result = r.result, !.sent = plaintext]
           /\ wire' = IF r.result = ERR THEN wire
                      ELSE <<[to |-> Peer(s), msg |-> r.message[1],
                              orig |-> r.message[1], plain |-> plaintext,
                              epoch |-> hist[s].epoch]>>
           /\ Charge(r.result,
                     [budget EXCEPT
                         !.enc = IF r.result = ERR THEN @ ELSE @ + 1,
                         !.rnd = IF drew THEN @ + 1 ELSE @])
    /\ UNCHANGED hist

\* the message in flight has a bit of its ciphertext or of its MAC flipped
Tamper ==
    /\ wire # <<>> /\ wire[1].msg = wire[1].orig
    /\ \/ wire' = [wire EXCEPT ![1].msg.message[1].ciphertext[1].alt = 1]
       \/ wire' = [wire EXCEPT ![1].msg.message[1].mac.alt = 1]
    /\ UNCHANGED <<sess, pre, last, hist, budget>>

Decrypt(s) ==
    /\ ~last.crashed
    /\ wire # <<>> /\ wire[1].to = s
    /\ \E max_plaintext_length \in {0, 64} :
        LET w == wire[1]
            r == decrypt(sess[s], w.msg.type, w.msg, max_plaintext_length)
            o == decrypt(sess[s], w.orig.type, w.orig, max_plaintext_length)
        IN /\ sess' = [sess EXCEPT ![s] = r.session]
           /\ pre' = sess[s]
           /\ last' = [NoLast EXCEPT !.op = "decrypt", !.who = s,
                                     !.result = r.result,
                                     !.genuine = Genuine(w),
                                     !.altered = (w.msg # w.orig),
                                     !.accepts = (o.result # ERR),
                                     !.max = max_plaintext_length,
                                     !.out = r.plaintext, !.sent = w.plain]
           /\ hist' = IF r.result = ERR THEN hist
                      ELSE [hist EXCEPT ![s].decrypted = TRUE]
           /\ Charge(r.result, budget)
    /\ wire' = <<>>

\* a session_id call that succeeds and a matches_inbound_session call are
\* not recorded in last: the session after them is all they leave.
SessionId(s) ==
    /\ ~last.crashed
    /\ RatchetInitialised(sess[s].ratchet)
    /\ \E id_length \in {0, session_id_length} :
        LET r == session_id(sess[s], id_length)
        IN /\ sess' = [sess EXCEPT ![s] = r.session]
           /\ pre' = IF r.result = ERR THEN sess[s] ELSE pre
           /\ last' = IF r.result = ERR
                      THEN [NoLast EXCEPT !.op = "session_id", !.who = s,
                                          !.result = r.result]
                      ELSE last
           /\ Charge(r.result, budget)
    /\ UNCHANGED <<wire, hist>>

\* decrypt_max_plaintext_length on the message in flight, taken as of its own
\* type or as a normal message
DecryptMax(s) ==
    /\ ~last.crashed
    /\ RatchetInitialised(sess[s].ratchet)
    /\ wire # <<>> /\ wire[1].to = s
    /\ \E message_type \in {wire[1].msg.type, "MESSAGE"} :
        LET r == decrypt_max_plaintext_length(sess[s], message_type,
                                              wire[1].msg)
        IN /\ sess' = [sess EXCEPT ![s] = r.session]
           /\ pre' = IF r.result = ERR THEN sess[s] ELSE pre
           /\ last' = IF r.result = ERR
                      THEN [NoLast EXCEPT !.op = "decrypt_max_plaintext_length",
                                          !.who = s, !.result = r.result]
                      ELSE last
           /\ Charge(r.result, budget)
    /\ UNCHANGED <<wire, hist>>

MatchesInbound(s) ==
    /\ ~last.crashed
    /\ RatchetInitialised(sess[s].ratchet)
    /\ wire # <<>> /\ wire[1].to = s
    /\ \E their_identity_key \in {NoKey, Account[Peer(s)].identity.public_key} :
        LET r == matches_inbound_session(sess[s], their_identity_key,
                                         wire[1].msg)
        IN sess' = [sess EXCEPT ![s] = r.session]
    /\ UNCHANGED <<pre, last, wire, hist, budget>>

(***************************************************************************)
(* 32-bit unsigned integers, as <<high half, low half>> of 16 bits each.    *)
(***************************************************************************)
Half == 2 ^ 16

Sub32(a, b) ==
    LET borrow == IF a[2] < b[2] THEN 1 ELSE 0
    IN << (a[1] - b[1] - borrow + 2 * Half) % Half, (a[2] - b[2] + Half) % Half >>

Add32(a, b) ==
    LET carry == (a[2] + b[2]) \div Half
    IN << (a[1] + b[1] + carry) % Half, (a[2] + b[2]) % Half >>

Lt32(a, b) == a[1] < b[1] \/ (a[1] = b[1] /\ a[2] < b[2])
Le32(a, b) == a = b \/ Lt32(a, b)

\* x < (1U << 31)
Below2p31(x) == x[1] < Half \div 2

\* 0, 1, 2^31 - 1, 2^31, 2^31 + 1, 2^32 - 1
Counters ==
    { <<0, 0>>, <<0, 1>>, <<Half \div 2 - 1, Half - 1>>,
      <<Half \div 2, 0>>, <<Half \div 2, 1>>, <<Half - 1, Half - 1>> }

(***************************************************************************)
(* Megolm ratchet.  The 128 bytes of ratchet data are named by the seed of *)
(* the sender's ratchet and the counter at which the sender holds them.     *)
(***************************************************************************)
MEGOLM_RATCHET_LENGTH == 128

megolm_init(key_buf, counter) == [counter |-> counter, data |-> key_buf]

\* advance_to(target): fails, leaving the ratchet as it is, when the target
\* lies before the counter
megolm_advance_to(megolm, advance_to) ==
    IF Lt32(advance_to, megolm.counter) THEN megolm
    ELSE [counter |-> advance_to,
          data |-> [megolm.data EXCEPT
                       !.at = Add32(@, Sub32(advance_to, megolm.counter))]]

megolm_get_data(megolm) == megolm.data

(***************************************************************************)
(* Base64 and the group message codec.                                     *)
(***************************************************************************)
\* _olm_decode_base64_length
decode_base64_length(input_length) ==
    IF input_length % 4 = 1 THEN ERR ELSE (input_length * 3) \div 4

\* the MAC, under the ratchet data, of the framed group message
GroupMac(key, version, message_index, group_session_id, ciphertext) ==
    [key |-> key, version |-> version, message_index |-> message_index,
     session_id |-> group_session_id, ciphertext |-> ciphertext, alt |-> 0]

\* the message a sender with this ratchet seed frames at message_index:
\* version, session id, message index, ciphertext, then the 8-byte MAC;
\* signature tells what follows the MAC.
GroupMessage(seed, message_index, plaintext, signature) ==
    LET key == [seed |-> seed, at |-> message_index]
        ciphertext == <<CipherText(key, plaintext)>>
    IN [base64 |-> TRUE, version |-> OLM_PROTOCOL_VERSION,
        has_message_index |-> TRUE, message_index |-> message_index,
        session_id |-> 1, ciphertext |-> ciphertext,
        mac |-> GroupMac(key, OLM_PROTOCOL_VERSION, message_index, 1, ciphertext),
        signature |-> signature]

\* megolm_cipher decrypt: the last mac_length bytes of the message are the
\* tag compared with the MAC recomputed over the bytes before them, so bytes
\* that follow the MAC take its place and do not verify.
GroupCipherDecrypt(key, message) ==
    IF /\ message.signature = "none"
       /\ message.mac = GroupMac(key, message.version, message.message_index,
                                 message.session_id, message.ciphertext)
       /\ message.ciphertext[1].key = key
       /\ message.ciphertext[1].alt = 0
    THEN [result |-> Len(message.ciphertext[1].pt),
          plaintext |-> message.ciphertext[1].pt]
    ELSE [result |-> ERR, plaintext |-> <<>>]

(***************************************************************************)
(* Inbound group session                                                   *)
(***************************************************************************)
NewGroupSession ==
    LET zero == [counter |-> <<0, 0>>, data |-> [seed |-> 0, at |-> <<0, 0>>]]
    IN [initial_ratchet |-> zero, latest_ratchet |-> zero,
        last_error |-> "SUCCESS"]

\* olm_clear_inbound_group_session, and olm_inbound_group_session on the
\* memory of a session in use: every byte of the session set to zero
olm_clear_inbound_group_session(session) == NewGroupSession

\* faulty variant: the latest ratchet initialised at index 0
olm_init_inbound_group_session_LatestAtZero(session, message_index, session_key) ==
    [session |-> [session EXCEPT
                     !.initial_ratchet =
                         megolm_init(session_key.data, message_index),
                     !.latest_ratchet =
                         megolm_init(session_key.data, <<0, 0>>)],
     result |-> 0]

\* olm_init_inbound_group_session.  session_key: the length of the base64
\* text and the ratchet data it encodes.
olm_init_inbound_group_session(session, message_index, session_key) ==
    LET raw_length == decode_base64_length(session_key.length) IN
    IF raw_length = ERR
    THEN [session |-> [session EXCEPT !.last_error = "INVALID_BASE64"],
          result |-> ERR]
    ELSE IF raw_length # MEGOLM_RATCHET_LENGTH
    THEN [session |-> [session EXCEPT !.last_error = "BAD_SESSION_KEY"],
          result |-> ERR]
    ELSE [session |-> [session EXCEPT
                          !.initial_ratchet =
                              megolm_init(session_key.data, message_index),
                          !.latest_ratchet =
                              megolm_init(session_key.data, message_index)],
          result |-> 0]

\* faulty variant: an index before the initial ratchet is not refused
PickMegolm_NeverUnknown(message_index, latest_counter, initial_counter) ==
    IF Below2p31(Sub32(message_index, latest_counter)) THEN "latest"
    ELSE "copy of initial"

\* faulty variant: an index before the latest ratchet taken to the latest
\* ratchet all the same
PickMegolm_AlwaysLatest(message_index, latest_counter, initial_counter) ==
    IF Below2p31(Sub32(message_index, latest_counter)) THEN "latest"
    ELSE IF ~Below2p31(Sub32(message_index, initial_counter)) THEN "unknown"
    ELSE "latest"

\* faulty variant: no ratchet for an index before the latest one
PickMegolm_NeverCopy(message_index, latest_counter, initial_counter) ==
    IF Below2p31(Sub32(message_index, latest_counter)) THEN "latest"
    ELSE "unknown"

\* which Megolm _decrypt works on
PickMegolm(message_index, latest_counter, initial_counter) ==
    IF Below2p31(Sub32(message_index, latest_counter)) THEN "latest"
    ELSE IF ~Below2p31(Sub32(message_index, initial_counter)) THEN "unknown"
    ELSE "copy of initial"

\* faulty variant: the initial ratchet advanced in place, without a copy
olm_group_decrypt_NoCopy(session, message, max_plaintext_length) ==
    LET fail(sn, e) == [session |-> [sn EXCEPT !.last_error = e],
                        result |-> ERR, plaintext |-> <<>>]
    IN
    IF ~message.base64 THEN fail(session, "INVALID_BASE64")
    ELSE IF message.version # OLM_PROTOCOL_VERSION
    THEN fail(session, "BAD_MESSAGE_VERSION")
    ELSE IF \/ ~message.has_message_index
            \/ message.session_id = NoKey
            \/ message.ciphertext = <<>>
    THEN fail(session, "BAD_MESSAGE_FORMAT")
    ELSE IF max_plaintext_length <
                encrypt_ciphertext_length(Len(message.ciphertext[1].pt))
    THEN fail(session, "OUTPUT_BUFFER_TOO_SMALL")
    ELSE
      LET pick == PickMegolm(message.message_index,
                             session.latest_ratchet.counter,
                             session.initial_ratchet.counter)
      IN
      IF pick = "unknown" THEN fail(session, "UNKNOWN_MESSAGE_INDEX")
      ELSE
        LET megolm == megolm_advance_to(
                          IF pick = "latest" THEN session.latest_ratchet
                          ELSE session.initial_ratchet,
                          message.message_index)
            after == IF pick = "latest"
                     THEN [session EXCEPT !.latest_ratchet = megolm]
                     ELSE [session EXCEPT !.initial_ratchet = megolm]
            r == GroupCipherDecrypt(megolm_get_data(megolm), message)
        IN IF r.result = ERR THEN fail(after, "BAD_MESSAGE_MAC")
           ELSE [session |-> after, result |-> r.result,
                 plaintext |-> r.plaintext]

\* olm_group_decrypt with _decrypt.  Result: the session after the call, the
\* returned value and the plaintext written.
olm_group_decrypt(session, message, max_plaintext_length) ==
    LET fail(sn, e) == [session |-> [sn EXCEPT !.last_error = e],
                        result |-> ERR, plaintext |-> <<>>]
    IN
    IF ~message.base64 THEN fail(session, "INVALID_BASE64")
    ELSE IF message.version # OLM_PROTOCOL_VERSION
    THEN fail(session, "BAD_MESSAGE_VERSION")
    ELSE IF \/ ~message.has_message_index
            \/ message.session_id = NoKey
            \/ message.ciphertext = <<>>
    THEN fail(session, "BAD_MESSAGE_FORMAT")
    ELSE IF max_plaintext_length <
                encrypt_ciphertext_length(Len(message.ciphertext[1].pt))
    THEN fail(session, "OUTPUT_BUFFER_TOO_SMALL")
    ELSE
      LET pick == PickMegolm(message.message_index,
                             session.latest_ratchet.counter,
                             session.initial_ratchet.counter)
      IN
      IF pick = "unknown" THEN fail(session, "UNKNOWN_MESSAGE_INDEX")
      ELSE
        LET megolm == megolm_advance_to(
                          IF pick = "latest" THEN session.latest_ratchet
                          ELSE session.initial_ratchet,
                          message.message_index)
            after == IF pick = "latest"
                     THEN [session EXCEPT !.latest_ratchet = megolm]
                     ELSE session
            r == GroupCipherDecrypt(megolm_get_data(megolm), message)
        IN IF r.result = ERR THEN fail(after, "BAD_MESSAGE_MAC")
           ELSE [session |-> after, result |-> r.result,
                 plaintext |-> r.plaintext]

\* olm_group_decrypt_max_plaintext_length with
\* _decrypt_max_plaintext_length.  Result: the session after the call and
\* the returned value.
olm_group_decrypt_max_plaintext_length(session, message) ==
    IF ~message.base64
    THEN [session |-> [session EXCEPT !.last_error = "INVALID_BASE64"],
          result |-> ERR]
    ELSE IF message.version # OLM_PROTOCOL_VERSION
    THEN [session |-> [session EXCEPT !.last_error = "BAD_MESSAGE_VERSION"],
          result |-> ERR]
    ELSE IF message.ciphertext = <<>>
    THEN [session |-> [session EXCEPT !.last_error = "BAD_MESSAGE_FORMAT"],
          result |-> ERR]
    ELSE [session |-> session,
          result |-> encrypt_ciphertext_length(Len(message.ciphertext[1].pt))]

(***************************************************************************)
(* Pickling of the inbound group session.  The raw pickle lies in the      *)
(* encrypted container of _olm_enc_output, named by the key it was sealed  *)
(* with, the raw bytes and the length of its base64 text.                  *)
(***************************************************************************)
PICKLE_VERSION == 1

megolm_pickle(megolm) ==
    << [bytes |-> MEGOLM_RATCHET_LENGTH, value |-> megolm.data],
       [bytes |-> 4, value |-> megolm.counter] >>

megolm_unpickle(cells, i, megolm) ==
    LET data == unpickle_cell(cells, i, MEGOLM_RATCHET_LENGTH)
        counter == unpickle_cell(cells, data.next, 4)
    IN [value |-> [megolm EXCEPT !.counter = counter.value,
                                 !.data = data.value],
        next |-> counter.next]

\* _olm_enc_output_length: base64 of the padded ciphertext and its 32-byte MAC
enc_output_length(raw_length) ==
    ((raw_length + 16 - (raw_length % 16) + SHA256_OUTPUT_LENGTH) * 4 + 2) \div 3

\* _olm_enc_output
enc_output(key, raw) ==
    [key |-> key, raw |-> raw, length |-> enc_output_length(PickleBytes(raw))]

\* _olm_enc_input: the raw length, or the error it reports
enc_input(key, pickled) ==
    IF pickled.length # enc_output_length(PickleBytes(pickled.raw))
    THEN [result |-> ERR, last_error |-> "INVALID_BASE64"]
    ELSE IF key # pickled.key
    THEN [result |-> ERR, last_error |-> "BAD_ACCOUNT_KEY"]
    ELSE [result |-> PickleBytes(pickled.raw), last_error |-> "SUCCESS"]

raw_pickle_length(session) ==
    PickleBytes(pickle_uint32(PICKLE_VERSION))
    + PickleBytes(megolm_pickle(session.initial_ratchet))
    + PickleBytes(megolm_pickle(session.latest_ratchet))

olm_pickle_inbound_group_session_length(session) ==
    enc_output_length(raw_pickle_length(session))

\* olm_pickle_inbound_group_session.  Result: the session after the call,
\* the returned value and the pickle written (<<>> if none).
olm_pickle_inbound_group_session(session, key, pickled_length) ==
    LET raw_length == raw_pickle_length(session) IN
    IF pickled_length < enc_output_length(raw_length)
    THEN [session |-> [session EXCEPT !.last_error = "OUTPUT_BUFFER_TOO_SMALL"],
          result |-> ERR, pickled |-> <<>>]
    ELSE
      LET raw == pickle_uint32(PICKLE_VERSION)
                 \o megolm_pickle(session.initial_ratchet)
                 \o megolm_pickle(session.latest_ratchet)
          sealed == enc_output(key, raw)
      IN [session |-> session, result |-> sealed.length,
          pickled |-> <<sealed>>]

\* olm_unpickle_inbound_group_session.  Result: the session after the call
\* and the returned value.
olm_unpickle_inbound_group_session(session, key, pickled) ==
    LET opened == enc_input(key, pickled) IN
    IF opened.result = ERR
    THEN [session |-> [session EXCEPT !.last_error = opened.last_error],
          result |-> ERR]
    ELSE
      LET cells == pickled.raw
          pickle_version == unpickle_cell(cells, 1, 4)
      IN
      IF pickle_version.value # PICKLE_VERSION
      THEN [session |-> [session EXCEPT !.last_error = "UNKNOWN_PICKLE_VERSION"],
            result |-> ERR]
      ELSE
        LET initial == megolm_unpickle(cells, pickle_version.next,
                                       session.initial_ratchet)
            latest == megolm_unpickle(cells, initial.next,
                                      session.latest_ratchet)
            restored == [session EXCEPT !.initial_ratchet = initial.value,
                                        !.latest_ratchet = latest.value]
        IN IF latest.next # Len(cells) + 1
           THEN [session |-> [restored EXCEPT !.last_error = "CORRUPTED_PICKLE"],
                 result |-> ERR]
           ELSE [session |-> restored, result |-> pickled.length]

(***************************************************************************)
(* The group system: one inbound group session and the calls made on it.   *)
(***************************************************************************)
\* what is done to a message the sender framed (the sender appends no
\* signature unless stated)
Damage ==
    {"intact", "base64", "version", "message_index", "session_id",
     "ciphertext", "mac flipped", "ciphertext flipped", "other sender",
     "signature valid", "signature altered"}

Damaged(index, how) ==
    LET m == GroupMessage(1, index, <<7>>, "none") IN
    CASE how = "intact" -> m
      [] how = "base64" -> [m EXCEPT !.base64 = FALSE]
      [] how = "version" -> [m EXCEPT !.version = 2]
      [] how = "message_index" -> [m EXCEPT !.has_message_index = FALSE]
      [] how = "session_id" -> [m EXCEPT !.session_id = NoKey]
      [] how = "ciphertext" -> [m EXCEPT !.ciphertext = <<>>]
      [] how = "mac flipped" -> [m EXCEPT !.mac.alt = 1]
      [] how = "ciphertext flipped" -> [m EXCEPT !.ciphertext[1].alt = 1]
      [] how = "other sender" -> GroupMessage(2, index, <<7>>, "none")
      [] how = "signature valid" -> [m EXCEPT !.signature = "valid"]
      [] how = "signature altered" -> [m EXCEPT !.signature = "altered"]

GroupMessages == { Damaged(index, how) : index \in Counters, how \in Damage }

NoGroupLast ==
    [op |-> "none", result |-> 0, plaintext |-> <<>>, max |-> 0,
     message |-> GroupMessage(0, <<0, 0>>, <<>>, "none"), key |-> "none"]

InitG ==
    /\ grp = NewGroupSession
    /\ gpre = NewGroupSession
    /\ glast = NoGroupLast

GroupInit ==
    \E message_index \in Counters, length \in {171, 172, 173} :
        LET r == olm_init_inbound_group_session(
                     grp, message_index,
                     [length |-> length,
                      data |-> [seed |-> 1, at |-> message_index]])
        IN /\ grp' = r.session
           /\ gpre' = grp
           /\ glast' = [NoGroupLast EXCEPT !.op = "init", !.result = r.result]

GroupClear ==
    /\ grp' = olm_clear_inbound_group_session(grp)
    /\ gpre' = grp
    /\ glast' = [NoGroupLast EXCEPT !.op = "clear"]

GroupDecrypt ==
    \E message \in GroupMessages, max_plaintext_length \in {0, 64} :
        LET r == olm_group_decrypt(grp, message, max_plaintext_length)
        IN /\ grp' = r.session
           /\ gpre' = grp
           /\ glast' = [NoGroupLast EXCEPT
                           !.op = "decrypt", !.result = r.result,
                           !.plaintext = r.plaintext,
                           !.max = max_plaintext_length, !.message = message]

GroupDecryptMax ==
    \E message \in GroupMessages :
        LET r == olm_group_decrypt_max_plaintext_length(grp, message)
        IN /\ grp' = r.session
           /\ gpre' = grp
           /\ glast' = [NoGroupLast EXCEPT
                           !.op = "decrypt_max_plaintext_length",
                           !.result = r.result]

(***************************************************************************)
(* Specifications                                                          *)
(***************************************************************************)
Init == InitP /\ InitG

Next ==
    \/ NewOutbound("A") /\ UNCHANGED gvars
    \/ NewInbound("B") /\ UNCHANGED gvars
    \/ \E s \in Party : Encrypt(s) /\ UNCHANGED gvars
    \/ Tamper /\ UNCHANGED gvars
    \/ \E s \in Party : Decrypt(s) /\ UNCHANGED gvars
    \/ \E s \in Party : SessionId(s) /\ UNCHANGED gvars
    \/ \E s \in Party : MatchesInbound(s) /\ UNCHANGED gvars
    \/ \E s \in Party : DecryptMax(s) /\ UNCHANGED gvars

Spec == Init /\ [][Next]_vars

\* the group session alone: the pairwise sessions, in objects constructed
\* in zeroed storage, take no step
InitGroup ==
    /\ sess = [s \in Party |-> NewSession(Zeroed)]
    /\ pre = NewSession(Zeroed)
    /\ wire = <<>>
    /\ last = NoLast
    /\ hist = [s \in Party |-> NoHist]
    /\ budget = [new |-> 0, enc |-> 0, rnd |-> 0, fail |-> 0]
    /\ InitG

NextGroup ==
    \/ GroupInit /\ UNCHANGED pvars
    \/ GroupClear /\ UNCHANGED pvars
    \/ GroupDecrypt /\ UNCHANGED pvars
    \/ GroupDecryptMax /\ UNCHANGED pvars

SpecGroup == InitGroup /\ [][NextGroup]_vars

(***************************************************************************)
(* matches_inbound_session over its inputs: a session set up by             *)
(* new_outbound_session, an envelope whose fields are present or absent,    *)
(* of the right length or short, equal to the stored keys or not, and the   *)
(* optional expected identity key.                                          *)
(***************************************************************************)
MatchSessions ==
    { new_outbound_session(NewSession(Zeroed), Account[a], identity_key, one_time_key,
                           random).session :
        a \in Party,
        identity_key \in {Account["B"].identity.public_key},
        one_time_key \in PublishedKeys("B"),
        random \in {<<17, 19>>, <<23, 19>>} }

MatchKeys(field) ==
    {NoKey} \cup {session[field] : session \in MatchSessions}

MatchMessages ==
    { [PreKeyMessage(one_time_key, identity_key, base_key, body) EXCEPT
          !.one_time_key_length = IF short = "one_time_key" THEN KEY_LENGTH - 1
                                  ELSE IF one_time_key = NoKey THEN 0 ELSE @,
          !.identity_key_length = IF short = "identity_key" THEN KEY_LENGTH - 1
                                  ELSE IF identity_key = NoKey THEN 0 ELSE @,
          !.base_key_length = IF short = "base_key" THEN KEY_LENGTH - 1
                              ELSE IF base_key = NoKey THEN 0 ELSE @] :
        one_time_key \in MatchKeys("bob_one_time_key"),
        identity_key \in MatchKeys("alice_identity_key"),
        base_key \in MatchKeys("alice_base_key"),
        body \in {<<>>, <<[version |-> PROTOCOL_VERSION]>>},
        short \in {"none", "one_time_key", "identity_key", "base_key"} }
    \cup {NormalMessage(<<[version |-> PROTOCOL_VERSION]>>)}

InitMatches ==
    /\ \E session \in MatchSessions :
          sess = [s \in Party |-> IF s = "B" THEN session ELSE NewSession(Zeroed)]
    /\ pre = NewSession(Zeroed)
    /\ \E message \in MatchMessages :
          wire = <<[to |-> "B", msg |-> message, orig |-> message,
                    plain |-> <<>>, epoch |-> 0]>>
    /\ last = NoLast
    /\ hist = [s \in Party |-> NoHist]
    /\ budget = [new |-> 0, enc |-> 0, rnd |-> 0, fail |-> 0]
    /\ InitG

MatchesCall ==
    /\ \E their_identity_key \in MatchKeys("alice_identity_key") :
        LET r == matches_inbound_session(sess["B"], their_identity_key,
                                         wire[1].msg)
        IN /\ sess' = [sess EXCEPT !["B"] = r.session]
           /\ pre' = sess["B"]
           /\ last' = [NoLast EXCEPT !.op = "matches_inbound_session",
                                     !.who = "B",
                                     !.result = IF r.result THEN 1 ELSE 0,
                                     !.their = their_identity_key]
    /\ UNCHANGED <<wire, hist, budget>>

NextMatches == MatchesCall /\ UNCHANGED gvars

SpecMatches == InitMatches /\ [][NextMatches]_vars

(***************************************************************************)
(* Pickling over its inputs: a session taken at some point of a            *)
(* conversation and an inbound group session are pickled, the pickle is    *)
(* kept, or its version word is changed, or a byte is appended, and it is  *)
(* unpickled into a new object that takes the place of the original.       *)
(***************************************************************************)
ScA0 ==
    new_outbound_session(NewSession(Zeroed), Account["A"],
                         Account["B"].identity.public_key,
                         Account["B"].one_time_keys[1].public_key,
                         <<17, 19>>).session
ScE1 == encrypt(ScA0, <<7>>, <<>>, encrypt_message_length(ScA0, 1))
ScB0 ==
    new_inbound_session(NewSession(Zeroed), Account["B"], NoKey,
                        ScE1.message[1]).session
ScB1 == decrypt(ScB0, "PRE_KEY", ScE1.message[1], 64).session
ScE2 == encrypt(ScB1, <<8, 9>>, <<31>>, encrypt_message_length(ScB1, 2))
ScA2 == decrypt(ScE1.session, "MESSAGE", ScE2.message[1], 64).session

PickleSessions ==
    {NewSession(storage) : storage \in Storage} \cup
    {ScA0, ScE1.session, ScB0, ScB1, ScE2.session, ScA2,
     session_id(ScA2, 0).session}

ScenarioMessages == {ScE1.message[1], ScE2.message[1]}

PickleGroupSessions ==
    {NewGroupSession}
    \cup { olm_init_inbound_group_session(
               NewGroupSession, index,
               [length |-> 171, data |-> [seed |-> 1, at |-> index]]).session :
             index \in Counters }
    \cup { olm_group_decrypt(
               olm_init_inbound_group_session(
                   NewGroupSession, <<0, 0>>,
                   [length |-> 171,
                    data |-> [seed |-> 1, at |-> <<0, 0>>]]).session,
               Damaged(<<0, 1>>, how), 64).session :
             how \in {"intact", "mac flipped"} }

PickleKeys == {"pickle key", "another key"}

InitPickle ==
    /\ \E session \in PickleSessions :
          sess = [s \in Party |-> IF s = "A" THEN session ELSE NewSession(Zeroed)]
    /\ pre = NewSession(Zeroed)
    /\ wire = <<>>
    /\ last = NoLast
    /\ hist = [s \in Party |-> NoHist]
    /\ budget = [new |-> 0, enc |-> 0, rnd |-> 0, fail |-> 0]
    /\ grp \in PickleGroupSessions
    /\ gpre = NewGroupSession
    /\ glast = NoGroupLast

PickleSession ==
    /\ wire = <<>>
    /\ wire' = <<[to |-> "session", msg |-> pickle(sess["A"]),
                  orig |-> pickle(sess["A"]), of |-> sess["A"]]>>
    /\ pre' = sess["A"]
    /\ last' = [NoLast EXCEPT !.op = "pickle",
                              !.result = pickle_length(sess["A"])]
    /\ UNCHANGED <<sess, hist, budget, gvars>>

PickleGroup ==
    /\ wire = <<>>
    /\ \E pickled_length \in {0, olm_pickle_inbound_group_session_length(grp)} :
        LET r == olm_pickle_inbound_group_session(grp, "pickle key",
                                                  pickled_length)
        IN /\ grp' = r.session
           /\ gpre' = grp
           /\ glast' = [NoGroupLast EXCEPT !.op = "pickle",
                                           !.result = r.result,
                                           !.key = "pickle key"]
           /\ wire' = IF r.result = ERR THEN wire
                      ELSE <<[to |-> "group", msg |-> r.pickled[1],
                              orig |-> r.pickled[1], of |-> grp]>>
    /\ UNCHANGED pvars_but_wire

\* the stored pickle gets another version word, or a byte after its end
CorruptPickle ==
    /\ wire # <<>> /\ wire[1].msg = wire[1].orig
    /\ \E version \in {0, 2} :
        LET trailing == <<[bytes |-> 1, value |-> 0]>> IN
        \/ /\ wire[1].to = "session"
           /\ \/ wire' = [wire EXCEPT ![1].msg[1].value = version]
              \/ wire' = [wire EXCEPT ![1].msg = @ \o trailing]
        \/ /\ wire[1].to = "group"
           /\ \/ wire' = [wire EXCEPT ![1].msg.raw[1].value = version]
              \/ wire' = [wire EXCEPT
                             ![1].msg.raw = @ \o trailing,
                             ![1].msg.length =
                                 enc_output_length(PickleBytes(
                                     wire[1].msg.raw \o trailing))]
    /\ UNCHANGED <<sess, pre, last, hist, budget, gvars>>

UnpickleSession ==
    /\ wire # <<>> /\ wire[1].to = "session"
    /\ \E storage \in Storage :
       LET r == unpickle(wire[1].msg, NewSession(storage))
       IN /\ sess' = [sess EXCEPT !["A"] = r.session]
          /\ pre' = wire[1].of
          /\ last' = [NoLast EXCEPT !.op = "unpickle", !.result = r.pos,
                                    !.altered = (wire[1].msg # wire[1].orig),
                                    !.sent = wire[1].msg]
    /\ wire' = <<>>
    /\ UNCHANGED <<hist, budget, gvars>>

UnpickleGroup ==
    /\ wire # <<>> /\ wire[1].to = "group"
    /\ \E key \in PickleKeys :
        LET r == olm_unpickle_inbound_group_session(NewGroupSession, key,
                                                    wire[1].msg)
        IN /\ grp' = r.session
           /\ gpre' = wire[1].of
           /\ glast' = [NoGroupLast EXCEPT !.op = "unpickle",
                                           !.result = r.result,
                                           !.message = wire[1].msg,
                                           !.key = key]
    /\ wire' = <<>>
    /\ UNCHANGED <<sess, pre, last, hist, budget>>

NextPickle ==
    \/ PickleSession
    \/ PickleGroup
    \/ CorruptPickle
    \/ UnpickleSession
    \/ UnpickleGroup
    \/ GroupClear /\ UNCHANGED pvars

SpecPickle == InitPickle /\ [][NextPickle]_vars

(***************************************************************************)
(* new_inbound_session over its inputs: B's Session object, new or in use,  *)
(* a pre-key message whose fields are present or absent, of the right      *)
(* length or short, naming a one-time key of B's account or another key,   *)
(* and the optional expected identity key.                                  *)
(***************************************************************************)
InboundSessions == {NewSession(storage) : storage \in Storage} \cup {ScB0, ScB1}

\* the ratchet's output inside A's first message, whole, without its ratchet
\* key, and with a short one
InboundBodies ==
    LET body == ScE1.message[1].message[1] IN
    { <<>>, <<body>>,
      <<[body EXCEPT !.ratchet_key = NoKey, !.ratchet_key_length = 0]>>,
      <<[body EXCEPT !.ratchet_key_length = KEY_LENGTH - 1]>> }

InboundMessages ==
    { [PreKeyMessage(one_time_key, identity_key, base_key, body) EXCEPT
          !.one_time_key_length = IF short = "one_time_key" THEN KEY_LENGTH - 1
                                  ELSE IF one_time_key = NoKey THEN 0 ELSE @,
          !.identity_key_length = IF short = "identity_key" THEN KEY_LENGTH - 1
                                  ELSE IF identity_key = NoKey THEN 0 ELSE @,
          !.base_key_length = IF short = "base_key" THEN KEY_LENGTH - 1
                              ELSE IF base_key = NoKey THEN 0 ELSE @] :
        one_time_key \in {NoKey} \cup PublishedKeys("B") \cup PublishedKeys("A"),
        identity_key \in {NoKey, Account["A"].identity.public_key,
                          Account["B"].identity.public_key},
        base_key \in {NoKey, ScA0.alice_base_key,
                      curve25519_generate_key(23).public_key},
        body \in InboundBodies,
        short \in {"none", "one_time_key", "identity_key", "base_key"} }
    \cup {ScE2.message[1]}

InitInbound ==
    /\ \E session \in InboundSessions :
          sess = [s \in Party |-> IF s = "B" THEN session ELSE NewSession(Zeroed)]
    /\ pre = NewSession(Zeroed)
    /\ \E message \in InboundMessages :
          wire = <<[to |-> "B", msg |-> message, orig |-> message,
                    plain |-> <<>>, epoch |-> 0]>>
    /\ last = NoLast
    /\ hist = [s \in Party |-> NoHist]
    /\ budget = [new |-> 0, enc |-> 0, rnd |-> 0, fail |-> 0]
    /\ InitG

InboundCall ==
    /\ last.op = "none"
    /\ \E their_identity_key \in {NoKey, Account["A"].identity.public_key,
                                  Account["B"].identity.public_key} :
        LET r == new_inbound_session(sess["B"], Account["B"],
                                     their_identity_key, wire[1].msg)
        IN /\ sess' = [sess EXCEPT !["B"] = r.session]
           /\ pre' = sess["B"]
           /\ last' = [NoLast EXCEPT !.op = "new_inbound_session",
                                     !.who = "B",
                                     !.result = r.result,
                                     !.crashed = r.crashed,
                                     !.their = their_identity_key]
    /\ UNCHANGED <<wire, hist, budget>>

NextInbound == InboundCall /\ UNCHANGED gvars

SpecInbound == InitInbound /\ [][NextInbound]_vars

(***************************************************************************)
(* Properties of the pairwise session                                      *)
(***************************************************************************)
\* A created the session it holds by new_outbound_session, and B created its
\* own from a pre-key message that this session of A wrote
Handshaken ==
    /\ hist["A"].role = "outbound"
    /\ hist["B"].role = "inbound"
    /\ hist["B"].from = hist["A"].epoch

\* the last call was B's successful new_inbound_session on a pre-key message
\* written by encrypt on the session A holds
JustHandshaken ==
    /\ last.op = "new_inbound_session" /\ last.who = "B"
    /\ last.result = 0 /\ last.genuine
    /\ hist["A"].role = "outbound"

\* C1: after new_outbound_session on A and new_inbound_session on B from a
\* pre-key message written by A's encrypt, session_id gives the same 32
\* bytes on both sessions.
ThmC1_HandshakeAgreement ==
    JustHandshaken =>
        /\ session_id(sess["A"], session_id_length).result = session_id_length
        /\ session_id(sess["B"], session_id_length).id
               = session_id(sess["A"], session_id_length).id

\* the handshake from A's first pre-key message (counter 0) has taken place
WitC1_HandshakeDone ==
    /\ JustHandshaken
    /\ wire # <<>> /\ wire[1].msg.message[1].counter = 0
    /\ sess["B"].bob_one_time_key \in PublishedKeys("B")

\* C2: after a completed handshake, the peer's decrypt of a message written
\* by encrypt(p), given room for the plaintext, succeeds and returns p.
ThmC2_RoundTrip ==
    ( /\ last.op = "decrypt" /\ last.genuine /\ Handshaken
      /\ last.max >= encrypt_ciphertext_length(Len(last.sent)) )
    => /\ last.result = Len(last.sent)
       /\ last.out = last.sent

\* A has decrypted, after the handshake, a normal message that B wrote
WitC2_ReplyDecrypted ==
    /\ last.op = "decrypt" /\ last.who = "A" /\ last.genuine /\ Handshaken
    /\ last.out = last.sent /\ last.out # <<>>
    /\ sess["A"].received_message

\* the session without last_error
Core(session) == [session EXCEPT !.last_error = "SUCCESS"]

\* C3: a decrypt that fails on a message whose ciphertext or MAC was altered
\* (the message as written would have been decrypted) reports
\* BAD_MESSAGE_MAC and leaves the session as it was, so that any following
\* encrypt writes what it would have written without the rejected call.
ThmC3_ForgeryRejected ==
    (last.op = "decrypt" /\ last.altered /\ last.accepts)
    => /\ last.result = ERR
       /\ sess[last.who].last_error = "BAD_MESSAGE_MAC"
       /\ Core(sess[last.who]) = Core(pre)
       /\ \A plaintext \in Plaintexts, random \in {<<>>, <<EncryptSeeds[1]>>} :
            LET after == encrypt(sess[last.who], plaintext, random,
                                 encrypt_message_length(sess[last.who],
                                                        Len(plaintext)))
                before == encrypt(pre, plaintext, random,
                                  encrypt_message_length(pre, Len(plaintext)))
            IN after.result = before.result /\ after.message = before.message

\* B has rejected an altered first message while it would still send pre-key
\* messages
WitC3_AlteredRejected ==
    /\ last.op = "decrypt" /\ last.who = "B" /\ last.altered /\ last.accepts
    /\ last.result = ERR
    /\ ~pre.received_message

\* C5, as claimed: a session sends PRE_KEY messages until its first
\* successful decrypt and MESSAGE ones from then on.  (Refuted: B's second
\* new_inbound_session leaves received_message set.)
CexC5_TypeFollowsDecrypt ==
    \A s \in Party :
        hist[s].role # "none" =>
            (encrypt_message_type(sess[s]) = "MESSAGE" <=> hist[s].decrypted)

\* C6, as claimed: once received_message is true it never becomes false.
\* (Refuted: new_outbound_session clears it.)
CexC6_FlagNeverCleared ==
    [][\A s \in Party :
          sess[s].received_message => sess'[s].received_message]_vars

\* C6, amended: received_message, once true, stays true under
\* new_inbound_session, encrypt, decrypt, matches_inbound_session and
\* session_id; only a successful new_outbound_session clears it.
ThmC6_FlagClearedOnlyByOutbound ==
    [][\A s \in Party :
          (sess[s].received_message /\ ~sess'[s].received_message)
          => (last'.op = "new_outbound_session" /\ last'.who = s
              /\ last'.result = 0)]_vars

\* a session that had received a message has gone through a failed decrypt
\* and kept the flag
WitC6_FlagKept ==
    /\ last.op = "decrypt" /\ last.result = ERR
    /\ pre.received_message /\ sess[last.who].received_message

\* C10: the secret new_outbound_session hands to initialise_as_alice equals,
\* block by block, the one new_inbound_session hands to initialise_as_bob for
\* a pre-key message of that outbound session.
ThmC10_SecretAgreement ==
    JustHandshaken =>
        /\ Len(hist["A"].secret) = 3
        /\ hist["B"].secret = hist["A"].secret

\* the handshake has taken place and the three blocks are three different
\* Diffie-Hellman outputs
WitC10_ThreeBlocks ==
    /\ JustHandshaken
    /\ Cardinality({hist["B"].secret[i] : i \in 1..3}) = 3

(***************************************************************************)
(* Properties of the inbound group session                                 *)
(***************************************************************************)
\* the last call was olm_group_decrypt on a message that passes the checks
\* made before a ratchet is picked
ReachedIndexCheck ==
    /\ glast.op = "decrypt"
    /\ glast.message.base64
    /\ glast.message.version = OLM_PROTOCOL_VERSION
    /\ glast.message.has_message_index
    /\ glast.message.session_id # NoKey
    /\ glast.message.ciphertext # <<>>
    /\ glast.max >= encrypt_ciphertext_length(Len(glast.message.ciphertext[1].pt))

\* C4, as claimed: when olm_group_decrypt fails with BAD_MESSAGE_MAC, both
\* ratchets are as before the call.
CexC4_RollbackOnBadMac ==
    ( /\ glast.op = "decrypt" /\ glast.result = ERR
      /\ grp.last_error = "BAD_MESSAGE_MAC" )
    => /\ grp.initial_ratchet = gpre.initial_ratchet
       /\ grp.latest_ratchet = gpre.latest_ratchet

\* C7, as claimed: a message (passing the earlier checks) whose index is
\* below initial_ratchet.counter is rejected with UNKNOWN_MESSAGE_INDEX.
CexC7_BelowInitialUnknown ==
    ( /\ ReachedIndexCheck
      /\ Lt32(glast.message.message_index, gpre.initial_ratchet.counter) )
    => /\ glast.result = ERR
       /\ grp.last_error = "UNKNOWN_MESSAGE_INDEX"

\* C7, amended: a message passing the earlier checks whose index lies before
\* both counters in the wrap-aware order (index - counter, modulo 2^32, at
\* least 2^31) is rejected with UNKNOWN_MESSAGE_INDEX, and neither ratchet
\* moves.
ThmC7_WrapAwareBelowUnknown ==
    ( /\ ReachedIndexCheck
      /\ ~Below2p31(Sub32(glast.message.message_index,
                          gpre.latest_ratchet.counter))
      /\ ~Below2p31(Sub32(glast.message.message_index,
                          gpre.initial_ratchet.counter)) )
    => /\ glast.result = ERR
       /\ grp.last_error = "UNKNOWN_MESSAGE_INDEX"
       /\ grp.initial_ratchet = gpre.initial_ratchet
       /\ grp.latest_ratchet = gpre.latest_ratchet

\* an intact message with an index below a session initialised at 2^31 has
\* been refused
WitC7_OldMessageRefused ==
    /\ ReachedIndexCheck
    /\ glast.message.mac.alt = 0 /\ glast.message.signature = "none"
    /\ gpre.initial_ratchet.counter = <<Half \div 2, 0>>
    /\ Lt32(glast.message.message_index, gpre.initial_ratchet.counter)
    /\ grp.last_error = "UNKNOWN_MESSAGE_INDEX"

\* C8, as claimed: a message whose signature is stripped or altered is
\* rejected.
CexC8_UnsignedRejected ==
    ( /\ glast.op = "decrypt"
      /\ glast.message.signature \in {"none", "altered"} )
    => glast.result = ERR

\* C9: initial_ratchet.counter <= latest_ratchet.counter, as unsigned 32-bit
\* integers, in every state of the session.
ThmC9_InitialNotAfterLatest ==
    Le32(grp.initial_ratchet.counter, grp.latest_ratchet.counter)

\* a successful decrypt has moved the latest ratchet past the initial one
WitC9_LatestAhead ==
    /\ glast.op = "decrypt" /\ glast.result # ERR
    /\ Lt32(grp.initial_ratchet.counter, grp.latest_ratchet.counter)
    /\ Lt32(gpre.latest_ratchet.counter, grp.latest_ratchet.counter)

(***************************************************************************)
(* Properties of matches_inbound_session                                   *)
(***************************************************************************)
\* C11: matches_inbound_session leaves received_message, the three stored
\* keys, the ratchet and last_error as they were, for every message and
\* every optional expected identity key.
ThmC11_MatchesWritesNothing ==
    last.op = "matches_inbound_session" => sess[last.who] = pre

\* a call on an envelope that fails the field checks has returned false
WitC11_MalformedEnvelope ==
    /\ last.op = "matches_inbound_session" /\ last.result = 0
    /\ wire[1].msg.type = "PRE_KEY"
    /\ ~check_message_fields(wire[1].msg, last.their # NoKey)

\* the three keys of the envelope, all present with KEY_LENGTH bytes, equal
\* the three keys the session stores
TripleEqual(session, message) ==
    /\ message.type = "PRE_KEY"
    /\ message.identity_key # NoKey
    /\ message.identity_key_length = KEY_LENGTH
    /\ message.identity_key = session.alice_identity_key
    /\ message.base_key # NoKey
    /\ message.base_key_length = KEY_LENGTH
    /\ message.base_key = session.alice_base_key
    /\ message.one_time_key # NoKey
    /\ message.one_time_key_length = KEY_LENGTH
    /\ message.one_time_key = session.bob_one_time_key

\* C12, as claimed: matches_inbound_session returns true if and only if the
\* triple of the envelope equals the stored triple.
CexC12_TrueIffTripleEqual ==
    last.op = "matches_inbound_session" =>
        (last.result = 1 <=> TripleEqual(pre, wire[1].msg))

\* C12, amended: matches_inbound_session returns true if and only if the
\* envelope carries an embedded message, a base key and a one-time key of
\* KEY_LENGTH bytes equal to the stored ones, and every identity key at
\* hand, the envelope's (of KEY_LENGTH bytes) and the caller's expected one,
\* equals the stored identity key, at least one of the two being there.
ThmC12_TrueIffKeysAtHandEqual ==
    last.op = "matches_inbound_session" =>
        LET m == wire[1].msg IN
        ( last.result = 1 <=>
            /\ m.type = "PRE_KEY"
            /\ m.message # <<>>
            /\ m.identity_key # NoKey \/ last.their # NoKey
            /\ m.identity_key # NoKey =>
                  /\ m.identity_key_length = KEY_LENGTH
                  /\ m.identity_key = pre.alice_identity_key
            /\ last.their # NoKey => last.their = pre.alice_identity_key
            /\ m.base_key # NoKey /\ m.base_key_length = KEY_LENGTH
            /\ m.base_key = pre.alice_base_key
            /\ m.one_time_key # NoKey /\ m.one_time_key_length = KEY_LENGTH
            /\ m.one_time_key = pre.bob_one_time_key )

\* an envelope without identity key has matched on the caller's expected key
WitC12_MatchedOnExpectedKey ==
    /\ last.op = "matches_inbound_session" /\ last.result = 1
    /\ wire[1].msg.identity_key = NoKey
    /\ last.their = pre.alice_identity_key

(***************************************************************************)
(* Properties of pickling                                                  *)
(***************************************************************************)
\* what a session gives for the operations that may follow (encrypt and
\* decrypt are for a session that new_outbound_session or
\* new_inbound_session has set up)
SessionAnswers(session) ==
    IF ~RatchetInitialised(session.ratchet)
    THEN [type |-> encrypt_message_type(session),
          id |-> session_id(session, session_id_length).id]
    ELSE
    [type |-> encrypt_message_type(session),
     id |-> session_id(session, session_id_length).id,
     matches |-> [m \in ScenarioMessages |->
                    matches_inbound_session(session, NoKey, m).result],
     encrypt |-> [plaintext \in Plaintexts |->
                    [random \in {<<>>, <<37>>} |->
                       LET r == encrypt(session, plaintext, random,
                                        encrypt_message_length(
                                            session, Len(plaintext)))
                       IN <<r.result, r.message, Core(r.session)>>]],
     decrypt |-> [m \in ScenarioMessages |->
                    LET r == decrypt(session, m.type, m, 64)
                    IN <<r.result, r.plaintext, Core(r.session),
                         r.session.last_error = session.last_error>>]]

\* what a group session gives for the messages that may follow
GroupAnswers(session) ==
    [m \in GroupMessages |->
        LET r == olm_group_decrypt(session, m, 64)
        IN <<r.result, r.plaintext, r.session.initial_ratchet,
             r.session.latest_ratchet>>]

\* C13: unpickling the bytes written by pickle restores received_message,
\* the three keys and the ratchet of a Session, and both ratchets of an
\* inbound group session; it consumes exactly pickle_length bytes; and the
\* restored object answers every following operation as the original does.
ThmC13_PickleRoundTrip ==
    /\ (last.op = "unpickle" /\ ~last.altered) =>
          /\ Core(sess["A"]) = Core(pre)
          /\ last.result = pickle_length(pre)
          /\ SessionAnswers(sess["A"]) = SessionAnswers(pre)
    /\ ( /\ glast.op = "unpickle"
         /\ glast.message = enc_output("pickle key", glast.message.raw)
         /\ glast.message.raw[1].value = PICKLE_VERSION
         /\ Len(glast.message.raw) = 5
         /\ glast.key = "pickle key" ) =>
          /\ grp.initial_ratchet = gpre.initial_ratchet
          /\ grp.latest_ratchet = gpre.latest_ratchet
          /\ glast.result = olm_pickle_inbound_group_session_length(gpre)
          /\ GroupAnswers(grp) = GroupAnswers(gpre)

\* a session that has received a message and a group session whose latest
\* ratchet has moved have both been restored from their pickles
WitC13_BothRestored ==
    /\ last.op = "unpickle" /\ ~last.altered
    /\ pre.received_message /\ pre.ratchet.receiver_chains # <<>>
    /\ pre.last_error # "SUCCESS"
    /\ sess["A"].received_message /\ sess["A"].last_error = "SUCCESS"
    /\ glast.op = "unpickle" /\ glast.result # ERR
    /\ Lt32(grp.initial_ratchet.counter, grp.latest_ratchet.counter)

\* C14: unpickling a Session or an inbound group session whose version word
\* is not the struct's pickle version reports UNKNOWN_PICKLE_VERSION; the
\* group session's unpickle reports CORRUPTED_PICKLE when bytes are left
\* after the two ratchets.
ThmC14_PickleRejected ==
    /\ (last.op = "unpickle" /\ last.sent[1].value # SESSION_PICKLE_VERSION) =>
          /\ sess["A"].last_error = "UNKNOWN_PICKLE_VERSION"
          /\ last.result = PickleBytes(last.sent)
          /\ Core(sess["A"]) \in {NewSession(storage) : storage \in Storage}
    /\ ( /\ glast.op = "unpickle" /\ glast.key = "pickle key"
         /\ glast.message.raw[1].value # PICKLE_VERSION ) =>
          /\ glast.result = ERR
          /\ grp.last_error = "UNKNOWN_PICKLE_VERSION"
    /\ ( /\ glast.op = "unpickle" /\ glast.key = "pickle key"
         /\ glast.message.raw[1].value = PICKLE_VERSION
         /\ Len(glast.message.raw) > 5 ) =>
          /\ glast.result = ERR
          /\ grp.last_error = "CORRUPTED_PICKLE"

\* a Session pickle of version 2 and a group pickle with a byte too many have
\* both been refused
WitC14_BothRefused ==
    /\ last.op = "unpickle" /\ last.sent[1].value = 2
    /\ sess["A"].last_error = "UNKNOWN_PICKLE_VERSION"
    /\ glast.op = "unpickle" /\ Len(glast.message.raw) = 6
    /\ grp.last_error = "CORRUPTED_PICKLE"

(***************************************************************************)
(* Further properties of the pairwise session                              *)
(***************************************************************************)
\* C15, as claimed: after every successful new_inbound_session,
\* received_message is false and encrypt_message_type returns PRE_KEY,
\* whatever the Session object went through before.  (Refuted: the call
\* does not write received_message.)
CexC15_InboundStartsPreKey ==
    (last.op = "new_inbound_session" /\ last.result = 0) =>
        /\ ~sess[last.who].received_message
        /\ encrypt_message_type(sess[last.who]) = "PRE_KEY"

\* C16: from a successfully created session, no encrypt, decrypt,
\* decrypt_max_plaintext_length, matches_inbound_session or session_id call,
\* succeeding or failing, changes the value that session_id returns.
ThmC16_SessionIdStable ==
    [][\A s \in Party :
          ( \/ Encrypt(s) \/ Decrypt(s) \/ DecryptMax(s)
            \/ MatchesInbound(s) \/ SessionId(s) )
          => session_id(sess'[s], session_id_length).id
                 = session_id(sess[s], session_id_length).id]_vars

\* B's session has decrypted a message and kept the id it had, which is the
\* id of A's session
WitC16_IdKeptOverDecrypt ==
    /\ last.op = "decrypt" /\ last.who = "B" /\ last.result # ERR
    /\ Handshaken
    /\ session_id(sess["B"], session_id_length).id
           = session_id(pre, session_id_length).id
    /\ session_id(sess["B"], session_id_length).id
           = session_id(sess["A"], session_id_length).id

\* the embedded message a Session call hands to the ratchet
MessageBody(message_type, message) ==
    IF message_type = "MESSAGE" THEN decode_message(message).message
    ELSE decode_one_time_key_message(message).message

\* C17: whenever the ratchet returns the error sentinel inside encrypt,
\* decrypt or decrypt_max_plaintext_length, the Session call returns the
\* sentinel with last_error equal to the ratchet's error code, and
\* ratchet.last_error is SUCCESS after the call (and in every state).
ThmC17_ErrorPropagation ==
    \A s \in Party :
      /\ sess[s].ratchet.last_error = "SUCCESS"
      /\ RatchetInitialised(sess[s].ratchet) =>
          /\ \A plaintext \in Plaintexts, random \in {<<>>, <<EncryptSeeds[1]>>} :
                LET length == encrypt_message_length(sess[s], Len(plaintext))
                    inner == Ratchet_encrypt(
                                 sess[s].ratchet, plaintext, random,
                                 Ratchet_encrypt_output_length(
                                     sess[s].ratchet, Len(plaintext)))
                    r == encrypt(sess[s], plaintext, random, length)
                IN inner.result = ERR =>
                     /\ r.result = ERR
                     /\ r.session.last_error = inner.ratchet.last_error
                     /\ r.session.ratchet.last_error = "SUCCESS"
          /\ (wire # <<>> /\ wire[1].to = s) =>
                \A message_type \in {wire[1].msg.type, "MESSAGE"},
                   max_plaintext_length \in {0, 64} :
                  LET body == MessageBody(message_type, wire[1].msg)
                      inner == Ratchet_decrypt(sess[s].ratchet, body,
                                               max_plaintext_length)
                      inner_max == Ratchet_decrypt_max_plaintext_length(
                                       sess[s].ratchet, body)
                      r == decrypt(sess[s], message_type, wire[1].msg,
                                   max_plaintext_length)
                      r_max == decrypt_max_plaintext_length(
                                   sess[s], message_type, wire[1].msg)
                  IN (message_type = "MESSAGE" \/ body # <<>>) =>
                       /\ inner.result = ERR =>
                            /\ r.result = ERR
                            /\ r.session.last_error = inner.ratchet.last_error
                            /\ r.session.ratchet.last_error = "SUCCESS"
                       /\ inner_max.result = ERR =>
                            /\ r_max.result = ERR
                            /\ r_max.session.last_error
                                   = inner_max.ratchet.last_error
                            /\ r_max.session.ratchet.last_error = "SUCCESS"

\* decrypt_max_plaintext_length has failed in the ratchet, on a pre-key
\* message taken as a normal one, and the session reports the ratchet's error
WitC17_RatchetErrorReported ==
    /\ last.op = "decrypt_max_plaintext_length" /\ last.result = ERR
    /\ wire # <<>> /\ wire[1].msg.type = "PRE_KEY" /\ wire[1].msg.message # <<>>
    /\ sess[last.who].last_error = "BAD_MESSAGE_FORMAT"
    /\ pre.last_error = "SUCCESS"
    /\ sess[last.who].ratchet.last_error = "SUCCESS"

(***************************************************************************)
(* Further properties of the inbound group session                         *)
(***************************************************************************)
\* C18: olm_group_decrypt and olm_group_decrypt_max_plaintext_length leave
\* initial_ratchet.counter and initial_ratchet.data unchanged, for every
\* message, also one decrypted from a copy of the initial ratchet.
ThmC18_InitialRatchetKept ==
    glast.op \in {"decrypt", "decrypt_max_plaintext_length"} =>
        grp.initial_ratchet = gpre.initial_ratchet

\* a message has been decrypted from a copy of the initial ratchet advanced
\* past the initial counter
WitC18_DecryptedFromCopy ==
    /\ glast.op = "decrypt" /\ glast.result # ERR
    /\ Lt32(gpre.initial_ratchet.counter, glast.message.message_index)
    /\ Lt32(glast.message.message_index, gpre.latest_ratchet.counter)
    /\ grp.initial_ratchet = gpre.initial_ratchet

\* the last call was olm_group_decrypt, on a session set up for the sender,
\* of a message as the sender framed it
DecryptOfIntact ==
    /\ ReachedIndexCheck
    /\ gpre.initial_ratchet.data.seed = 1
    /\ glast.message = Damaged(glast.message.message_index, "intact")

\* C19, as claimed: a message with initial_ratchet.counter <= i <
\* latest_ratchet.counter is worked on a copy of the initial ratchet (so it
\* is decrypted if intact) and latest_ratchet stays; a message decrypted
\* with i >= latest_ratchet.counter leaves latest_ratchet.counter = i.
CexC19_BetweenCountersFromCopy ==
    /\ ( /\ ReachedIndexCheck
         /\ Le32(gpre.initial_ratchet.counter, glast.message.message_index)
         /\ Lt32(glast.message.message_index, gpre.latest_ratchet.counter) )
       => /\ PickMegolm(glast.message.message_index,
                        gpre.latest_ratchet.counter,
                        gpre.initial_ratchet.counter) = "copy of initial"
          /\ grp.latest_ratchet = gpre.latest_ratchet
          /\ DecryptOfIntact => glast.result # ERR
    /\ ( /\ ReachedIndexCheck /\ glast.result # ERR
         /\ Le32(gpre.latest_ratchet.counter, glast.message.message_index) )
       => grp.latest_ratchet.counter = glast.message.message_index

\* C19, amended: a message whose index lies before latest_ratchet.counter
\* and not before initial_ratchet.counter in the wrap-aware order is worked
\* on a copy of the initial ratchet: latest_ratchet stays and the message,
\* if intact, is decrypted; a message decrypted with an index not before
\* latest_ratchet.counter in that order leaves latest_ratchet.counter = i.
ThmC19_WrapAwareChoice ==
    /\ ( /\ ReachedIndexCheck
         /\ ~Below2p31(Sub32(glast.message.message_index,
                             gpre.latest_ratchet.counter))
         /\ Below2p31(Sub32(glast.message.message_index,
                            gpre.initial_ratchet.counter)) )
       => /\ grp.latest_ratchet = gpre.latest_ratchet
          /\ DecryptOfIntact =>
                /\ glast.result = Len(glast.plaintext)
                /\ glast.plaintext = glast.message.ciphertext[1].pt
    /\ ( /\ ReachedIndexCheck /\ glast.result # ERR
         /\ Below2p31(Sub32(glast.message.message_index,
                            gpre.latest_ratchet.counter)) )
       => grp.latest_ratchet.counter = glast.message.message_index

\* an intact message of an index between the two counters has been decrypted
\* and the latest ratchet has stayed where it was
WitC19_OlderMessageDecrypted ==
    /\ DecryptOfIntact /\ glast.result # ERR
    /\ Lt32(glast.message.message_index, gpre.latest_ratchet.counter)
    /\ Lt32(gpre.initial_ratchet.counter, glast.message.message_index)
    /\ grp.latest_ratchet = gpre.latest_ratchet

\* C20, as claimed: validly encrypted messages with indices at or above
\* initial_ratchet.counter, in any order and with repetitions, are each
\* decrypted.
CexC20_AnyOrderAboveInitial ==
    ( /\ DecryptOfIntact
      /\ Le32(gpre.initial_ratchet.counter, glast.message.message_index) )
    => /\ glast.result # ERR
       /\ glast.plaintext = glast.message.ciphertext[1].pt

\* C20, amended: while latest_ratchet.counter is less than 2^31 past
\* initial_ratchet.counter, validly encrypted messages with indices at or
\* above initial_ratchet.counter and less than 2^31 past it, in any order
\* and with repetitions, are each decrypted with the key of their own index.
ThmC20_AnyOrderWithinWindow ==
    ( /\ DecryptOfIntact
      /\ Le32(gpre.initial_ratchet.counter, glast.message.message_index)
      /\ Below2p31(Sub32(gpre.latest_ratchet.counter,
                         gpre.initial_ratchet.counter))
      /\ Below2p31(Sub32(glast.message.message_index,
                         gpre.initial_ratchet.counter)) )
    => /\ glast.result = Len(glast.plaintext)
       /\ glast.plaintext = glast.message.ciphertext[1].pt
       /\ glast.message.ciphertext[1].key
              = megolm_get_data(megolm_advance_to(
                    gpre.initial_ratchet, glast.message.message_index))

\* a message has been decrypted a second time, after a later one
WitC20_RepeatedOutOfOrder ==
    /\ DecryptOfIntact /\ glast.result # ERR
    /\ glast.message.message_index = gpre.initial_ratchet.counter
    /\ Lt32(gpre.initial_ratchet.counter, gpre.latest_ratchet.counter)
    /\ gpre.initial_ratchet.counter # <<0, 0>>

(***************************************************************************)
(* Properties of new_inbound_session over its inputs                       *)
(***************************************************************************)
\* the decoded pre-key message of the last new_inbound_session call
InboundReader == decode_one_time_key_message(wire[1].msg)

\* the last call was new_inbound_session and it failed on a key: it
\* returned the sentinel, with BAD_MESSAGE_KEY_ID and the ratchet as it was
RefusedOnKey ==
    /\ ~last.crashed /\ last.result = ERR
    /\ sess[last.who].last_error = "BAD_MESSAGE_KEY_ID"
    /\ sess[last.who].ratchet = pre.ratchet

\* the message names an identity key other than the expected one
IdentityMismatch ==
    /\ last.their # NoKey
    /\ InboundReader.identity_key # NoKey
    /\ InboundReader.identity_key # last.their

\* the message names a one-time key that the account does not hold
UnknownOneTimeKey ==
    /\ InboundReader.one_time_key # NoKey
    /\ lookup_key(Account[last.who], InboundReader.one_time_key) = <<>>

\* the envelope passes check_message_fields
FieldsAccepted ==
    /\ last.their # NoKey \/ InboundReader.identity_key # NoKey
    /\ InboundReader.identity_key # NoKey
           => InboundReader.identity_key_length = KEY_LENGTH
    /\ InboundReader.message # <<>>
    /\ InboundReader.base_key # NoKey
    /\ InboundReader.base_key_length = KEY_LENGTH
    /\ InboundReader.one_time_key # NoKey
    /\ InboundReader.one_time_key_length = KEY_LENGTH

\* C21: whenever new_inbound_session returns from a pre-key message whose
\* envelope passes check_message_fields, and the expected identity key
\* differs from the message's or the account has no one-time key equal to
\* the one the message names, it has returned the sentinel with
\* BAD_MESSAGE_KEY_ID and the ratchet is as it was.
CexC21_KeyIdOnAnyMismatch ==
    ( /\ last.op = "new_inbound_session" /\ ~last.crashed
      /\ FieldsAccepted
      /\ IdentityMismatch \/ UnknownOneTimeKey )
    => RefusedOnKey

(***************************************************************************)
(* Properties of encrypt                                                   *)
(***************************************************************************)
\* the last call was an encrypt that wrote a message, still in flight
Encrypted == last.op = "encrypt" /\ last.result # ERR /\ wire # <<>>

\* what the ratchet can have written for the plaintext of the last encrypt
RatchetOutputs ==
    { Ratchet_encrypt(pre.ratchet, last.sent, random,
                      Ratchet_encrypt_output_length(pre.ratchet,
                                                    Len(last.sent))).message :
        random \in {<<>>} \cup {<<EncryptSeeds[i]>> : i \in 1..Len(EncryptSeeds)} }

\* the base keys a party has generated in new_outbound_session
OwnBaseKeys(s) ==
    IF hist[s].role = "outbound"
    THEN {curve25519_generate_key(random[1]).public_key : random \in OutboundRandom}
    ELSE {}

\* C22, as claimed: while encrypt_message_type is PRE_KEY the message is an
\* envelope with the encrypting party's own identity key, its own base key
\* and the peer's one-time key around the ratchet output, for outbound and
\* inbound sessions alike; while it is MESSAGE, only the ratchet output.
CexC22_EnvelopeCarriesOwnKeys ==
    Encrypted =>
        LET message == wire[1].orig IN
        IF encrypt_message_type(pre) = "PRE_KEY"
        THEN /\ message.type = "PRE_KEY"
             /\ message.identity_key = Account[last.who].identity.public_key
             /\ message.base_key \in OwnBaseKeys(last.who)
             /\ message.one_time_key \in PublishedKeys(Peer(last.who))
             /\ message.message \in RatchetOutputs
        ELSE /\ message.message \in RatchetOutputs
             /\ message = NormalMessage(message.message)

\* C22, amended: while encrypt_message_type is PRE_KEY the message is an
\* envelope with the session's stored alice_identity_key, alice_base_key and
\* bob_one_time_key around the ratchet output: the party's own identity key
\* and base key and the peer's one-time key in an outbound session, the
\* peer's identity key and base key and the party's own one-time key in an
\* inbound session.  While it is MESSAGE, only the ratchet output.
ThmC22_EnvelopeCarriesStoredKeys ==
    Encrypted =>
        LET message == wire[1].orig IN
        IF encrypt_message_type(pre) = "PRE_KEY"
        THEN /\ message.message \in RatchetOutputs
             /\ message = PreKeyMessage(pre.bob_one_time_key,
                                        pre.alice_identity_key,
                                        pre.alice_base_key, message.message)
             /\ hist[last.who].role = "outbound" =>
                   /\ message.identity_key
                          = Account[last.who].identity.public_key
                   /\ message.base_key \in OwnBaseKeys(last.who)
                   /\ message.one_time_key \in PublishedKeys(Peer(last.who))
             /\ hist[last.who].role = "inbound" =>
                   /\ message.identity_key
                          = Account[Peer(last.who)].identity.public_key
                   /\ message.base_key \in OwnBaseKeys(Peer(last.who))
                   /\ message.one_time_key \in PublishedKeys(last.who)
        ELSE /\ message.message \in RatchetOutputs
             /\ message = NormalMessage(message.message)

\* B has encrypted in an inbound session that has decrypted nothing yet, and
\* the envelope names A's identity key
WitC22_InboundEnvelope ==
    /\ Encrypted /\ last.who = "B"
    /\ hist["B"].role = "inbound"
    /\ wire[1].orig.type = "PRE_KEY"
    /\ wire[1].orig.identity_key = Account["A"].identity.public_key
    /\ wire[1].orig.one_time_key \in PublishedKeys("B")

\* C23, as claimed: a new_inbound_session that returns the error sentinel
\* leaves the three stored keys, received_message and the ratchet as they
\* were, so session_id gives the same result as before.  (Refuted: the keys
\* are loaded before the later failures.)
CexC23_FailedInboundKeepsSession ==
    (last.op = "new_inbound_session" /\ ~last.crashed /\ last.result = ERR) =>
        /\ sess[last.who].alice_identity_key = pre.alice_identity_key
        /\ sess[last.who].alice_base_key = pre.alice_base_key
        /\ sess[last.who].bob_one_time_key = pre.bob_one_time_key
        /\ sess[last.who].received_message = pre.received_message
        /\ sess[last.who].ratchet = pre.ratchet
        /\ session_id(sess[last.who], session_id_length).id
               = session_id(pre, session_id_length).id

\* C24, as claimed: new_inbound_session reads no absent field of the
\* decoded message: when the message carries no identity key, the null
\* field is not loaded, so the call returns.  (Refuted: with an expected
\* identity key supplied, the null field is read and the process is killed
\* at the read.)
CexC24_AbsentIdentityKeyNotLoaded ==
    (last.op = "new_inbound_session" /\ InboundReader.identity_key = NoKey) =>
        ~last.crashed

\* C25, as claimed: a successful encrypt returns the length of the message
\* it wrote, encrypt_message_length(plaintext_length), for a PRE_KEY
\* envelope and for a normal message; with a shorter buffer it returns the
\* sentinel with OUTPUT_BUFFER_TOO_SMALL and the ratchet is not called.
\* (Refuted: for an envelope the length of the embedded message is returned.)
CexC25_ReturnsMessageLength ==
    /\ Encrypted => last.result = encrypt_message_length(pre, Len(last.sent))
    /\ ( /\ last.op = "encrypt" /\ last.result = ERR
         /\ sess[last.who].last_error = "OUTPUT_BUFFER_TOO_SMALL" )
       => sess[last.who].ratchet = pre.ratchet

(***************************************************************************)
(* Failure of olm_unpickle_inbound_group_session                           *)
(***************************************************************************)
\* C26, as claimed: an olm_unpickle_inbound_group_session that returns the
\* error sentinel leaves initial_ratchet and latest_ratchet as they were
\* before the call, here those of the new object the pickle is read into.
\* (Refuted: both ratchets are read before the length check.)
CexC26_FailedUnpickleKeepsRatchets ==
    (glast.op = "unpickle" /\ glast.result = ERR) =>
        /\ grp.initial_ratchet = NewGroupSession.initial_ratchet
        /\ grp.latest_ratchet = NewGroupSession.latest_ratchet

====
